---- MODULE Spec2Model ----
(***************************************************************************)
(* Varuna decision core: RiskEngine, ProtectionEngine, CollateralAnalyzer. *)
(*                                                                         *)
(* JavaScript numbers are modelled as exact rationals <<n, d>> with d > 0  *)
(* in lowest terms (IEEE-754 rounding error is not modelled).  A quotient  *)
(* whose divisor is zero has no rational value; the places where the code  *)
(* can divide by zero are guarded exactly as the code guards them.         *)
(***************************************************************************)
EXTENDS Integers, Sequences, FiniteSets, TLC

\* ------------------------------------------------------------------------
\* Numbers
\* ------------------------------------------------------------------------

Abs(x) == IF x < 0 THEN -x ELSE x

RECURSIVE GCD(_, _)
GCD(a, b) == IF b = 0 THEN a ELSE GCD(b, a % b)

\* the number n/d (d # 0), normalised
Q(n, d) ==
  LET g == GCD(Abs(n), Abs(d))
      s == IF d < 0 THEN -1 ELSE 1
  IN  <<(s * n) \div g, (s * d) \div g>>

QInt(n) == <<n, 1>>
QAdd(a, b) ==
  LET g == GCD(a[2], b[2])
  IN  Q(a[1] * (b[2] \div g) + b[1] * (a[2] \div g), (a[2] \div g) * b[2])
QNeg(a) == <<-a[1], a[2]>>
QSub(a, b) == QAdd(a, QNeg(b))
QMul(a, b) ==
  LET g1 == GCD(Abs(a[1]), b[2])
      g2 == GCD(Abs(b[1]), a[2])
  IN  Q((a[1] \div g1) * (b[1] \div g2), (a[2] \div g2) * (b[2] \div g1))
QInv(a) == Q(a[2], a[1])
QDiv(a, b) == QMul(a, QInv(b))
QLt(a, b) == a[1] * b[2] < b[1] * a[2]
QLe(a, b) == a[1] * b[2] <= b[1] * a[2]
QGt(a, b) == QLt(b, a)
QGe(a, b) == QLe(b, a)
QMax(a, b) == IF QLt(a, b) THEN b ELSE a
QMin(a, b) == IF QLt(b, a) THEN b ELSE a
QAbs(a) == <<Abs(a[1]), a[2]>>
QZero == QInt(0)

Max(a, b) == IF a < b THEN b ELSE a
Min(a, b) == IF b < a THEN b ELSE a

\* Math.round: nearest integer, halves towards +infinity
MathRound(q) == (2 * q[1] + q[2]) \div (2 * q[2])

\* left folds the code writes as Array.prototype.reduce
RECURSIVE SumValueUsd(_)
SumValueUsd(assets) ==
  IF assets = <<>> THEN 0
  ELSE assets[1].valueUsd + SumValueUsd(Tail(assets))

\* ------------------------------------------------------------------------
\* RiskEngine (src/services/risk-engine.ts, first half)
\* ------------------------------------------------------------------------

DEFAULT_CONFIG ==
  [ thresholds |-> [safe |-> Q(2, 1), low |-> Q(3, 2), medium |-> Q(5, 4), high |-> Q(11, 10)],
    positionSizeScaling |-> TRUE,
    trendWindowSize |-> 20,
    trendMinSamples |-> 3 ]

\* closeFactor and liquidationPenalty per protocol
PROTOCOL_PARAMS ==
  [ kamino   |-> [closeFactor |-> Q(1, 2), liquidationPenalty |-> Q(5, 100)],
    marginfi |-> [closeFactor |-> Q(1, 1), liquidationPenalty |-> Q(5, 100)],
    solend   |-> [closeFactor |-> Q(1, 2), liquidationPenalty |-> Q(5, 100)] ]

Key(position) == <<position.wallet, position.protocol>>

getEffectiveThresholds(config, position) ==
  LET base == config.thresholds
      totalValue == SumValueUsd(position.collateral)
      scaleFactor ==
        IF totalValue > 1000000 THEN Q(115, 100)
        ELSE IF totalValue > 100000 THEN Q(108, 100)
        ELSE IF totalValue > 10000 THEN Q(103, 100)
        ELSE Q(1, 1)
  IN  IF ~config.positionSizeScaling THEN base
      ELSE [ safe   |-> QMul(base.safe, scaleFactor),
             low    |-> QMul(base.low, scaleFactor),
             medium |-> QMul(base.medium, scaleFactor),
             high   |-> QMul(base.high, scaleFactor) ]

\* the interpolation rising with the health factor: lo + ((hf - a) / (b - a)) * span
Interp_Rising(lo, span, hf, a, b) ==
  QAdd(QInt(lo), QMul(QDiv(QSub(hf, a), QSub(b, a)), QInt(span)))

\* lo + (1 - (hf - a) / (b - a)) * span
Interp(lo, span, hf, a, b) ==
  QAdd(QInt(lo), QMul(QSub(QInt(1), QDiv(QSub(hf, a), QSub(b, a))), QInt(span)))

assessHealthFactor(config, position) ==
  LET hf == position.healthFactor
      th == getEffectiveThresholds(config, position)
      one == QInt(1)
      score ==
        IF QLe(hf, one) THEN QInt(100)
        ELSE IF QLt(hf, th.high) THEN Interp(90, 10, hf, one, th.high)
        ELSE IF QLt(hf, th.medium) THEN Interp(60, 30, hf, th.high, th.medium)
        ELSE IF QLt(hf, th.low) THEN Interp(30, 30, hf, th.medium, th.low)
        ELSE IF QLt(hf, th.safe) THEN Interp(10, 20, hf, th.low, th.safe)
        ELSE QMax(QZero, QSub(QInt(10), QMul(QSub(hf, th.safe), QInt(5))))
  IN  [ name |-> "health_factor",
        score |-> Max(0, Min(100, MathRound(score))),
        weight |-> Q(45, 100),
        detail |-> "health" ]

assessUtilization(position) ==
  LET totalCollateral == SumValueUsd(position.collateral)
      totalDebt == SumValueUsd(position.debt)
      u == Q(totalDebt, totalCollateral)
      score ==
        IF QLt(u, Q(3, 10)) THEN QMul(QDiv(u, Q(3, 10)), QInt(15))
        ELSE IF QLt(u, Q(5, 10)) THEN QAdd(QInt(15), QMul(QDiv(QSub(u, Q(3, 10)), Q(2, 10)), QInt(20)))
        ELSE IF QLt(u, Q(7, 10)) THEN QAdd(QInt(35), QMul(QDiv(QSub(u, Q(5, 10)), Q(2, 10)), QInt(30)))
        ELSE IF QLt(u, Q(85, 100)) THEN QAdd(QInt(65), QMul(QDiv(QSub(u, Q(7, 10)), Q(15, 100)), QInt(25)))
        ELSE QAdd(QInt(90), QMin(QInt(10), QMul(QDiv(QSub(u, Q(85, 100)), Q(15, 100)), QInt(10))))
  IN  IF totalCollateral = 0
      THEN [name |-> "utilization", score |-> 0, weight |-> Q(15, 100), detail |-> "No collateral"]
      ELSE [name |-> "utilization", score |-> MathRound(QMin(QInt(100), score)),
            weight |-> Q(15, 100), detail |-> "Utilization"]

RECURSIVE SumSquares(_, _)
SumSquares(assets, totalValue) ==
  IF assets = <<>> THEN QZero
  ELSE LET s == Q(assets[1].valueUsd, totalValue)
       IN  QAdd(QMul(s, s), SumSquares(Tail(assets), totalValue))

assessConcentration(position) ==
  LET collateralCount == Len(position.collateral)
      totalValue == SumValueUsd(position.collateral)
  IN  IF collateralCount <= 1 \/ totalValue = 0
      THEN [ name |-> "concentration",
             score |-> IF totalValue > 0 THEN 40 ELSE 0,
             weight |-> Q(10, 100),
             detail |-> IF collateralCount = 0 THEN "No collateral" ELSE "Single collateral asset" ]
      ELSE [ name |-> "concentration",
             score |-> MathRound(QMul(SumSquares(position.collateral, totalValue), QInt(60))),
             weight |-> Q(10, 100),
             detail |-> "HHI" ]

\* Array.prototype.slice(-n) for n >= 1
SliceLast(s, n) == IF Len(s) <= n THEN s ELSE SubSeq(s, Len(s) - n + 1, Len(s))

\* the whole minutes, fraction dropped
ToFixed0_Truncating(q) == q[1] \div q[2]

\* Number.prototype.toFixed(0) of a non-negative number
ToFixed0(q) == MathRound(q)

\* history is the key's history after the current snapshot was recorded
assessTrend(config, history, position) ==
  LET recent == SliceLast(history, config.trendWindowSize)
      oldest == recent[1]
      newest == recent[Len(recent)]
      deltaMs == newest.timestamp - oldest.timestamp
      hfDelta == QSub(newest.healthFactor, oldest.healthFactor)
      velocity == QDiv(hfDelta, Q(deltaMs, 60000))
      f(score, detail, eta) ==
        [name |-> "trend", score |-> score, weight |-> Q(20, 100), detail |-> detail, eta |-> eta]
  IN  IF Len(history) < config.trendMinSamples THEN f(25, "Insufficient data", -1)
      ELSE IF deltaMs < 6000 THEN f(25, "Samples too close in time", -1)
      ELSE IF QGt(velocity, Q(1, 100))
        THEN f(MathRound(QMin(QInt(100), QMax(QZero, QSub(QInt(15), QMul(velocity, QInt(100)))))),
               "Improving", -1)
      ELSE IF QGt(velocity, Q(-5, 1000)) THEN f(25, "Stable", -1)
      ELSE IF QGt(velocity, Q(-2, 100)) THEN f(50, "Declining", -1)
      ELSE IF QGt(velocity, Q(-5, 100)) THEN f(75, "Rapid decline", -1)
      ELSE f(95, "FREE FALL",
             IF QGt(position.healthFactor, QInt(1)) /\ QLt(velocity, QZero)
             THEN ToFixed0(QDiv(QSub(position.healthFactor, QInt(1)), QAbs(velocity)))
             ELSE -1)

\* <<>> stands for null
assessProtocolRisk(position) ==
  LET params == PROTOCOL_PARAMS[position.protocol]
      s1 == IF QGe(params.closeFactor, QInt(1)) THEN 20 ELSE 0
      s2 == IF QGt(params.liquidationPenalty, Q(5, 100)) THEN 15 ELSE 0
  IN  IF s1 + s2 = 0 THEN <<>>
      ELSE <<[name |-> "protocol_risk", score |-> s1 + s2, weight |-> Q(10, 100), detail |-> "protocol"]>>

scoreToLevel(score) ==
  IF score >= 80 THEN "critical"
  ELSE IF score >= 60 THEN "high"
  ELSE IF score >= 40 THEN "medium"
  ELSE IF score >= 20 THEN "low"
  ELSE "safe"

RECURSIVE SumWeights(_)
SumWeights(factors) ==
  IF factors = <<>> THEN QZero ELSE QAdd(factors[1].weight, SumWeights(Tail(factors)))

RECURSIVE SumWeighted(_)
SumWeighted(factors) ==
  IF factors = <<>> THEN QZero
  ELSE QAdd(QMul(QInt(factors[1].score), factors[1].weight), SumWeighted(Tail(factors)))

\* Math.min(100, Math.round(sum(score*weight) / totalWeight))
CompositeScore(factors) ==
  Min(100, MathRound(QDiv(SumWeighted(factors), SumWeights(factors))))

\* the first test written with < instead of <=
FloorOverride_StrictAtOne(riskScore, hf) ==
  IF QLt(hf, QInt(1)) THEN Max(riskScore, 100)
  ELSE IF QLt(hf, Q(105, 100)) THEN Max(riskScore, 85)
  ELSE IF QLt(hf, Q(11, 10)) THEN Max(riskScore, 70)
  ELSE riskScore

\* the 85 floor left out: everything under 1.10 gets the 70 floor
FloorOverride_Without85(riskScore, hf) ==
  IF QLe(hf, QInt(1)) THEN Max(riskScore, 100)
  ELSE IF QLt(hf, Q(11, 10)) THEN Max(riskScore, 70)
  ELSE riskScore

\* floor override: extreme health factors cannot be diluted by other factors
FloorOverride(riskScore, hf) ==
  IF QLe(hf, QInt(1)) THEN Max(riskScore, 100)
  ELSE IF QLt(hf, Q(105, 100)) THEN Max(riskScore, 85)
  ELSE IF QLt(hf, Q(11, 10)) THEN Max(riskScore, 70)
  ELSE riskScore

\* Math.round(x * 100) / 100
RoundCents(q) == Q(MathRound(QMul(q, QInt(100))), 100)

\* the factor named trend, as Array.prototype.find returns it
RECURSIVE FindFactor(_, _)
FindFactor(factors, name) ==
  IF factors = <<>> THEN <<>>
  ELSE IF factors[1].name = name THEN <<factors[1]>>
  ELSE FindFactor(Tail(factors), name)

\* amount <<>> stands for an absent amount
generateRecommendations(position, riskLevel, factors) ==
  LET totalDebt == SumValueUsd(position.debt)
      totalCollateral == SumValueUsd(position.collateral)
      targetHf == Q(3, 2)
      liqThreshold == position.liquidationThreshold
      safeDebt == QDiv(QMul(QInt(totalCollateral), liqThreshold), targetHf)
      repayAmount == QMax(QZero, QSub(QInt(totalDebt), safeDebt))
      safeCollateral == QDiv(QMul(QInt(totalDebt), targetHf), liqThreshold)
      addAmount == QMax(QZero, QSub(safeCollateral, QInt(totalCollateral)))
      repay(urgency) ==
        IF QGt(repayAmount, QZero)
        THEN <<[action |-> "repay", urgency |-> urgency, amount |-> <<RoundCents(repayAmount)>>]>>
        ELSE <<>>
      add ==
        IF QGt(addAmount, QZero)
        THEN <<[action |-> "add-collateral", urgency |-> "immediate", amount |-> <<RoundCents(addAmount)>>]>>
        ELSE <<>>
      trendFactor == FindFactor(factors, "trend")
      none == <<[action |-> "none", urgency |-> "monitor", amount |-> <<>>]>>
  IN  IF riskLevel = "safe" THEN none
      ELSE IF riskLevel = "critical" THEN repay("immediate") \o add
      ELSE IF riskLevel = "high" THEN repay("soon")
      ELSE IF riskLevel = "medium"
        THEN IF trendFactor # <<>> /\ trendFactor[1].score > 50
             THEN <<[action |-> "repay", urgency |-> "soon", amount |-> <<>>]>>
             ELSE none
      ELSE none

\* the key's history after push, never trimmed
recordSnapshot_NoTrim(config, history, healthFactor, timestamp) ==
  Append(history, [healthFactor |-> healthFactor, timestamp |-> timestamp])

\* the key's history after push and trim
recordSnapshot(config, history, healthFactor, timestamp) ==
  LET pushed == Append(history, [healthFactor |-> healthFactor, timestamp |-> timestamp])
  IN  IF Len(pushed) > config.trendWindowSize * 2
      THEN SliceLast(pushed, config.trendWindowSize)
      ELSE pushed

\* the value assessPosition returns; history is the key's history after recordSnapshot
assessPositionResult(config, history, position) ==
  LET factors ==
        << assessHealthFactor(config, position),
           assessUtilization(position),
           assessConcentration(position),
           [n \in {"name", "score", "weight", "detail"} |-> assessTrend(config, history, position)[n]] >>
        \o assessProtocolRisk(position)
      riskScore == FloorOverride(CompositeScore(factors), position.healthFactor)
      riskLevel == scoreToLevel(riskScore)
  IN  [ wallet |-> position.wallet,
        protocol |-> position.protocol,
        riskLevel |-> riskLevel,
        riskScore |-> riskScore,
        healthFactor |-> position.healthFactor,
        factors |-> factors,
        trendEta |-> assessTrend(config, history, position).eta,
        recommendations |-> generateRecommendations(position, riskLevel, factors) ]

\* assessWallet's positions.map(p => this.assessPosition(p)): the histories
\* after the calls and the assessments, in order
RECURSIVE AssessEach(_, _, _, _)
AssessEach(config, histories, positions, timestamp) ==
  IF positions = <<>> THEN [history |-> histories, assessments |-> <<>>]
  ELSE LET position == positions[1]
           key == Key(position)
           history == recordSnapshot(config, histories[key], position.healthFactor, timestamp)
           rest == AssessEach(config, [histories EXCEPT ![key] = history], Tail(positions), timestamp)
       IN  [ history |-> rest.history,
             assessments |-> <<assessPositionResult(config, history, position)>> \o rest.assessments ]

RECURSIVE MaxRiskScore(_)
MaxRiskScore(assessments) ==
  IF assessments = <<>> THEN 0
  ELSE Max(assessments[1].riskScore, MaxRiskScore(Tail(assessments)))

RECURSIVE SumRiskScore(_)
SumRiskScore(assessments) ==
  IF assessments = <<>> THEN 0
  ELSE assessments[1].riskScore + SumRiskScore(Tail(assessments))

RECURSIVE SumDebt(_)
SumDebt(positions) ==
  IF positions = <<>> THEN 0 ELSE SumValueUsd(positions[1].debt) + SumDebt(Tail(positions))

\* <<>> stands for null
assessCrossProtocolRisk(positions) ==
  LET protocols == {positions[i].protocol : i \in DOMAIN positions}
  IN  IF Len(positions) <= 1 \/ Cardinality(protocols) <= 1 THEN <<>>
      ELSE <<[ name |-> "cross_protocol", score |-> Min(60, Cardinality(protocols) * 20),
               weight |-> Q(15, 100), detail |-> <<Cardinality(protocols), SumDebt(positions)>> ]>>

\* scoreToLevel on a score that need not be a whole number
scoreToLevelQ(score) ==
  IF QGe(score, QInt(80)) THEN "critical"
  ELSE IF QGe(score, QInt(60)) THEN "high"
  ELSE IF QGe(score, QInt(40)) THEN "medium"
  ELSE IF QGe(score, QInt(20)) THEN "low"
  ELSE "safe"

urgencyRank == [immediate |-> 0, soon |-> 1, monitor |-> 2]

\* the Map byAction, as the sequence of its values in insertion order
RECURSIVE ByAction(_, _)
ByAction(recs, byAction) ==
  IF recs = <<>> THEN byAction
  ELSE LET rec == recs[1]
           existing == {k \in DOMAIN byAction : byAction[k].action = rec.action}
       IN  IF existing = {} THEN ByAction(Tail(recs), Append(byAction, rec))
           ELSE LET k == CHOOSE k \in existing : TRUE
                IN  IF urgencyRank[rec.urgency] < urgencyRank[byAction[k].urgency]
                    THEN ByAction(Tail(recs), [byAction EXCEPT ![k] = rec])
                    ELSE ByAction(Tail(recs), byAction)

\* Array.prototype.sort by urgency rank (stable)
RECURSIVE InsertByUrgency(_, _)
InsertByUrgency(rec, sorted) ==
  IF sorted = <<>> THEN <<rec>>
  ELSE IF urgencyRank[sorted[1].urgency] <= urgencyRank[rec.urgency]
       THEN <<sorted[1]>> \o InsertByUrgency(rec, Tail(sorted))
       ELSE <<rec>> \o sorted

RECURSIVE SortByUrgency(_)
SortByUrgency(recs) ==
  IF recs = <<>> THEN <<>>
  ELSE InsertByUrgency(recs[Len(recs)], SortByUrgency(SubSeq(recs, 1, Len(recs) - 1)))

\* the values of byAction as they were inserted, not sorted
deduplicateRecommendations_Unsorted(recs) == ByAction(recs, <<>>)

deduplicateRecommendations(recs) == SortByUrgency(ByAction(recs, <<>>))

RECURSIVE AllRecommendations(_)
AllRecommendations(assessments) ==
  IF assessments = <<>> THEN <<>>
  ELSE assessments[1].recommendations \o AllRecommendations(Tail(assessments))

\* assessWallet without its test for the empty list: positions[0].wallet
\* throws on an empty array
WalletAssessment_NoEmptyTest(histories, positions, each) ==
  LET assessments == each.assessments
      worstScore == MaxRiskScore(assessments)
      avgScore == Q(SumRiskScore(assessments), Len(assessments))
      overallRiskScore == MathRound(QAdd(QMul(QInt(worstScore), Q(7, 10)), QMul(avgScore, Q(3, 10))))
      crossProtocolRisk == assessCrossProtocolRisk(positions)
      overallRiskLevel ==
        IF crossProtocolRisk # <<>>
        THEN scoreToLevelQ(QMin(QInt(100),
               QAdd(QInt(overallRiskScore),
                    QMul(QMul(QInt(crossProtocolRisk[1].score), crossProtocolRisk[1].weight), QInt(10)))))
        ELSE scoreToLevel(overallRiskScore)
  IN  IF positions = <<>>
      THEN [history |-> histories, returns |-> <<>>, throws |-> <<"TypeError">>]
      ELSE [ history |-> each.history,
             returns |-> <<[ wallet |-> positions[1].wallet,
                             overallRiskLevel |-> overallRiskLevel,
                             overallRiskScore |-> overallRiskScore,
                             positions |-> assessments,
                             crossProtocolRisk |-> crossProtocolRisk,
                             recommendations |->
                               deduplicateRecommendations(AllRecommendations(assessments)) ]>>,
             throws |-> <<>> ]

\* what assessWallet(positions) leaves and returns or throws, each being
\* the outcome of its positions.map(p => this.assessPosition(p))
WalletAssessment(histories, positions, each) ==
  LET assessments == each.assessments
      worstScore == MaxRiskScore(assessments)
      avgScore == Q(SumRiskScore(assessments), Len(assessments))
      overallRiskScore == MathRound(QAdd(QMul(QInt(worstScore), Q(7, 10)), QMul(avgScore, Q(3, 10))))
      crossProtocolRisk == assessCrossProtocolRisk(positions)
      overallRiskLevel ==
        IF crossProtocolRisk # <<>>
        THEN scoreToLevelQ(QMin(QInt(100),
               QAdd(QInt(overallRiskScore),
                    QMul(QMul(QInt(crossProtocolRisk[1].score), crossProtocolRisk[1].weight), QInt(10)))))
        ELSE scoreToLevel(overallRiskScore)
  IN  IF positions = <<>>
      THEN [ history |-> histories,
             returns |-> <<[ wallet |-> "", overallRiskLevel |-> "safe", overallRiskScore |-> 0,
                             positions |-> <<>>, crossProtocolRisk |-> <<>>,
                             recommendations |-> <<>> ]>>,
             throws |-> <<>> ]
      ELSE [ history |-> each.history,
             returns |-> <<[ wallet |-> positions[1].wallet,
                             overallRiskLevel |-> overallRiskLevel,
                             overallRiskScore |-> overallRiskScore,
                             positions |-> assessments,
                             crossProtocolRisk |-> crossProtocolRisk,
                             recommendations |->
                               deduplicateRecommendations(AllRecommendations(assessments)) ]>>,
             throws |-> <<>> ]

\* the histories after assessWallet(positions) and what the call returns or throws
assessWallet(config, histories, positions, timestamp) ==
  WalletAssessment(histories, positions, AssessEach(config, histories, positions, timestamp))

\* ------------------------------------------------------------------------
\* ProtectionEngine (src/services/risk-engine.ts, second half)
\* ------------------------------------------------------------------------

DEFAULT_YIELD_RATES ==
  [ kamino   |-> [supplyAPY |-> Q(65, 1000), borrowAPY |-> Q(85, 1000)],
    marginfi |-> [supplyAPY |-> Q(55, 1000), borrowAPY |-> Q(90, 1000)],
    solend   |-> [supplyAPY |-> Q(45, 1000), borrowAPY |-> Q(75, 1000)] ]

\* the ProtectionEngine's DEFAULT_CONFIG
DEFAULT_CONFIG_Protection ==
  [ targetHealthFactor |-> Q(3, 2),
    maxProtectionUsd |-> QInt(10000),
    dryRun |-> TRUE,
    preferredStrategy |-> "yield-optimized",
    yieldRates |-> DEFAULT_YIELD_RATES ]

\* config.yieldRates[protocol] || DEFAULT_YIELD_RATES.kamino
YieldsFor(config, protocol) ==
  IF protocol \in DOMAIN config.yieldRates
  THEN config.yieldRates[protocol]
  ELSE DEFAULT_YIELD_RATES.kamino

calculateEffectiveAPY(collateralUsd, debtUsd, yields) ==
  LET equity == QSub(collateralUsd, debtUsd)
      netIncome == QSub(QMul(collateralUsd, yields.supplyAPY), QMul(debtUsd, yields.borrowAPY))
  IN  IF QLe(equity, QZero) THEN QZero ELSE QDiv(netIncome, equity)

YieldImpact(currentAPY, projectedAPY, annualizedCostUsd) ==
  [ currentAPY |-> currentAPY,
    projectedAPY |-> projectedAPY,
    yieldDeltaPercent |->
      IF currentAPY # QZero
      THEN QMul(QDiv(QSub(projectedAPY, currentAPY), QAbs(currentAPY)), QInt(100))
      ELSE QZero,
    annualizedCostUsd |-> annualizedCostUsd ]

\* symbol of the first asset, or the fallback (assets[0]?.symbol || fallback)
FirstSymbol(assets, fallback) == IF assets = <<>> THEN fallback ELSE assets[1].symbol

Option(action, position, asset, amount, resultingHF, resultingDebtUsd, resultingCollateralUsd, yieldImpact, capitalCostUsd) ==
  [ id |-> <<action, position.protocol>>,
    action |-> action,
    protocol |-> position.protocol,
    asset |-> asset,
    amount |-> amount,
    amountUsd |-> amount,
    resultingHF |-> resultingHF,
    resultingDebtUsd |-> resultingDebtUsd,
    resultingCollateralUsd |-> resultingCollateralUsd,
    yieldImpact |-> yieldImpact,
    capitalCostUsd |-> capitalCostUsd,
    yieldCostAnnualUsd |-> yieldImpact.annualizedCostUsd,
    totalScoreUsd |-> QAdd(capitalCostUsd, yieldImpact.annualizedCostUsd),
    viable |-> TRUE ]

\* the resulting health factor taken over the debt before the repayment
RepayOption_HFOverOldDebt(config, position) ==
  LET totalDebt == QInt(SumValueUsd(position.debt))
      totalCollateral == QInt(SumValueUsd(position.collateral))
      liqThreshold == position.liquidationThreshold
      yields == YieldsFor(config, position.protocol)
      targetDebt == QDiv(QMul(totalCollateral, liqThreshold), config.targetHealthFactor)
      repayAmount == QMax(QZero, QSub(totalDebt, targetDebt))
      newDebt == QSub(totalDebt, repayAmount)
      newHF == IF QGt(totalCollateral, QZero) /\ QGt(newDebt, QZero)
               THEN QDiv(QMul(totalCollateral, liqThreshold), totalDebt)
               ELSE QInt(999)
      netYieldChange == QSub(QMul(repayAmount, yields.borrowAPY), QMul(repayAmount, yields.supplyAPY))
      yieldImpact == YieldImpact(calculateEffectiveAPY(totalCollateral, totalDebt, yields),
                                 calculateEffectiveAPY(totalCollateral, newDebt, yields),
                                 QNeg(netYieldChange))
  IN  IF QGt(repayAmount, QZero) /\ QLe(repayAmount, config.maxProtectionUsd)
      THEN <<Option("repay", position, FirstSymbol(position.debt, "DEBT"), repayAmount,
                    newHF, newDebt, totalCollateral, yieldImpact, repayAmount)>>
      ELSE <<>>

\* Option A: repay debt
RepayOption(config, position) ==
  LET totalDebt == QInt(SumValueUsd(position.debt))
      totalCollateral == QInt(SumValueUsd(position.collateral))
      liqThreshold == position.liquidationThreshold
      yields == YieldsFor(config, position.protocol)
      targetDebt == QDiv(QMul(totalCollateral, liqThreshold), config.targetHealthFactor)
      repayAmount == QMax(QZero, QSub(totalDebt, targetDebt))
      newDebt == QSub(totalDebt, repayAmount)
      newHF == IF QGt(totalCollateral, QZero) /\ QGt(newDebt, QZero)
               THEN QDiv(QMul(totalCollateral, liqThreshold), newDebt)
               ELSE QInt(999)
      borrowSaved == QMul(repayAmount, yields.borrowAPY)
      supplyCost == QMul(repayAmount, yields.supplyAPY)
      netYieldChange == QSub(borrowSaved, supplyCost)
      yieldImpact == YieldImpact(calculateEffectiveAPY(totalCollateral, totalDebt, yields),
                                 calculateEffectiveAPY(totalCollateral, newDebt, yields),
                                 QNeg(netYieldChange))
  IN  IF QGt(repayAmount, QZero) /\ QLe(repayAmount, config.maxProtectionUsd)
      THEN <<Option("repay", position, FirstSymbol(position.debt, "DEBT"), repayAmount,
                    newHF, newDebt, totalCollateral, yieldImpact, repayAmount)>>
      ELSE <<>>

\* add-collateral that scales the health factor the caller reported
AddCollateralOption_ScalesReportedHF(config, position) ==
  LET totalDebt == QInt(SumValueUsd(position.debt))
      totalCollateral == QInt(SumValueUsd(position.collateral))
      liqThreshold == position.liquidationThreshold
      yields == YieldsFor(config, position.protocol)
      targetCollateral == QDiv(QMul(totalDebt, config.targetHealthFactor), liqThreshold)
      addAmount == QMax(QZero, QSub(targetCollateral, totalCollateral))
      newCollateral == QAdd(totalCollateral, addAmount)
      newHF == IF QGt(totalCollateral, QZero)
               THEN QDiv(QMul(position.healthFactor, newCollateral), totalCollateral)
               ELSE QInt(999)
      additionalYield == QMul(addAmount, yields.supplyAPY)
      yieldImpact == YieldImpact(calculateEffectiveAPY(totalCollateral, totalDebt, yields),
                                 calculateEffectiveAPY(newCollateral, totalDebt, yields),
                                 QNeg(additionalYield))
  IN  IF QGt(addAmount, QZero) /\ QLe(addAmount, config.maxProtectionUsd)
      THEN <<Option("add-collateral", position, FirstSymbol(position.collateral, "COLLATERAL"),
                    addAmount, newHF, totalDebt, newCollateral, yieldImpact, addAmount)>>
      ELSE <<>>

\* Option B: add collateral
AddCollateralOption(config, position) ==
  LET totalDebt == QInt(SumValueUsd(position.debt))
      totalCollateral == QInt(SumValueUsd(position.collateral))
      liqThreshold == position.liquidationThreshold
      yields == YieldsFor(config, position.protocol)
      targetCollateral == QDiv(QMul(totalDebt, config.targetHealthFactor), liqThreshold)
      addAmount == QMax(QZero, QSub(targetCollateral, totalCollateral))
      newCollateral == QAdd(totalCollateral, addAmount)
      newHF == IF QGt(totalDebt, QZero)
               THEN QDiv(QMul(newCollateral, liqThreshold), totalDebt)
               ELSE QInt(999)
      additionalYield == QMul(addAmount, yields.supplyAPY)
      yieldImpact == YieldImpact(calculateEffectiveAPY(totalCollateral, totalDebt, yields),
                                 calculateEffectiveAPY(newCollateral, totalDebt, yields),
                                 QNeg(additionalYield))
  IN  IF QGt(addAmount, QZero) /\ QLe(addAmount, config.maxProtectionUsd)
      THEN <<Option("add-collateral", position, FirstSymbol(position.collateral, "COLLATERAL"),
                    addAmount, newHF, totalDebt, newCollateral, yieldImpact, addAmount)>>
      ELSE <<>>

\* the unwind kept whatever health factor it reaches
UnwindOption_NoViabilityTest(config, position) ==
  LET totalDebt == QInt(SumValueUsd(position.debt))
      totalCollateral == QInt(SumValueUsd(position.collateral))
      liqThreshold == position.liquidationThreshold
      yields == YieldsFor(config, position.protocol)
      targetHF == config.targetHealthFactor
      targetDebt == QDiv(QMul(totalCollateral, liqThreshold), targetHF)
      repayAmount == QMax(QZero, QSub(totalDebt, targetDebt))
      unwindRepay == QMul(repayAmount, Q(6, 10))
      unwindWithdraw == QMul(unwindRepay, Q(8, 10))
      newDebt == QSub(totalDebt, unwindRepay)
      newCollateral == QSub(totalCollateral, unwindWithdraw)
      newHF == QDiv(QMul(newCollateral, liqThreshold), newDebt)
      lostSupplyYield == QMul(unwindWithdraw, yields.supplyAPY)
      savedBorrowCost == QMul(unwindRepay, yields.borrowAPY)
      netYieldChange == QSub(savedBorrowCost, lostSupplyYield)
      yieldImpact == YieldImpact(calculateEffectiveAPY(totalCollateral, totalDebt, yields),
                                 calculateEffectiveAPY(newCollateral, newDebt, yields),
                                 QNeg(netYieldChange))
  IN  IF /\ QGt(totalDebt, QZero) /\ QGt(totalCollateral, QZero)
         /\ QGt(unwindRepay, QZero) /\ QGt(newDebt, QZero) /\ QGt(newCollateral, QZero)
      THEN <<Option("unwind", position, "POSITION", unwindRepay, newHF, newDebt, newCollateral,
                    yieldImpact, QZero)>>
      ELSE <<>>

\* Option C: partial unwind
UnwindOption(config, position) ==
  LET totalDebt == QInt(SumValueUsd(position.debt))
      totalCollateral == QInt(SumValueUsd(position.collateral))
      liqThreshold == position.liquidationThreshold
      yields == YieldsFor(config, position.protocol)
      targetHF == config.targetHealthFactor
      targetDebt == QDiv(QMul(totalCollateral, liqThreshold), targetHF)
      repayAmount == QMax(QZero, QSub(totalDebt, targetDebt))
      unwindRepay == QMul(repayAmount, Q(6, 10))
      unwindWithdraw == QMul(unwindRepay, Q(8, 10))
      newDebt == QSub(totalDebt, unwindRepay)
      newCollateral == QSub(totalCollateral, unwindWithdraw)
      newHF == QDiv(QMul(newCollateral, liqThreshold), newDebt)
      lostSupplyYield == QMul(unwindWithdraw, yields.supplyAPY)
      savedBorrowCost == QMul(unwindRepay, yields.borrowAPY)
      netYieldChange == QSub(savedBorrowCost, lostSupplyYield)
      yieldImpact == YieldImpact(calculateEffectiveAPY(totalCollateral, totalDebt, yields),
                                 calculateEffectiveAPY(newCollateral, newDebt, yields),
                                 QNeg(netYieldChange))
  IN  IF /\ QGt(totalDebt, QZero) /\ QGt(totalCollateral, QZero)
         /\ QGt(unwindRepay, QZero) /\ QGt(newDebt, QZero) /\ QGt(newCollateral, QZero)
         /\ QGe(newHF, QMul(targetHF, Q(9, 10)))
      THEN <<Option("unwind", position, "POSITION", unwindRepay, newHF, newDebt, newCollateral,
                    yieldImpact, QZero)>>
      ELSE <<>>

\* every comparator with its operands swapped
Compare_Swapped(strategy, a, b) ==
  IF strategy = "yield-optimized" THEN QSub(b.yieldCostAnnualUsd, a.yieldCostAnnualUsd)
  ELSE IF strategy = "cost-optimized" THEN QSub(b.capitalCostUsd, a.capitalCostUsd)
  ELSE IF strategy = "speed-optimized" THEN QSub(a.resultingHF, b.resultingHF)
  ELSE QSub(b.totalScoreUsd, a.totalScoreUsd)

\* the comparator rankOptions hands to Array.prototype.sort: negative when a goes first
Compare(strategy, a, b) ==
  IF strategy = "yield-optimized" THEN QSub(a.yieldCostAnnualUsd, b.yieldCostAnnualUsd)
  ELSE IF strategy = "cost-optimized" THEN QSub(a.capitalCostUsd, b.capitalCostUsd)
  ELSE IF strategy = "speed-optimized" THEN QSub(b.resultingHF, a.resultingHF)
  ELSE QSub(a.totalScoreUsd, b.totalScoreUsd)

\* x inserted into a sorted list, after every element it does not precede
RECURSIVE InsertRanked(_, _, _)
InsertRanked(strategy, sorted, x) ==
  IF sorted = <<>> THEN <<x>>
  ELSE IF QLt(Compare(strategy, x, sorted[1]), QZero) THEN <<x>> \o sorted
  ELSE <<sorted[1]>> \o InsertRanked(strategy, Tail(sorted), x)

\* Array.prototype.sort is stable: equal elements keep their order
RECURSIVE StableSort(_, _, _)
StableSort(strategy, done, todo) ==
  IF todo = <<>> THEN done
  ELSE StableSort(strategy, InsertRanked(strategy, done, todo[1]), Tail(todo))

rankOptions(config, options) == StableSort(config.preferredStrategy, <<>>, options)

\* the early return taken for safe only
evaluateOptions_LowNotGated(config, position, riskLevel) ==
  IF riskLevel = "safe" THEN <<>>
  ELSE rankOptions(config, RepayOption(config, position)
                             \o AddCollateralOption(config, position)
                             \o UnwindOption(config, position))

evaluateOptions(config, position, riskLevel) ==
  IF riskLevel = "safe" \/ riskLevel = "low" THEN <<>>
  ELSE rankOptions(config, RepayOption(config, position)
                             \o AddCollateralOption(config, position)
                             \o UnwindOption(config, position))

\* <<>> stands for null
selectBestOption(options) ==
  LET viable == SelectSeq(options, LAMBDA o : o.viable)
  IN  IF viable = <<>> THEN <<>> ELSE <<viable[1]>>

noOpOption(position) ==
  [ id |-> <<"no-op">>,
    action |-> "repay",
    protocol |-> position.protocol,
    asset |-> "NONE",
    amount |-> QZero,
    amountUsd |-> QZero,
    resultingHF |-> position.healthFactor,
    resultingDebtUsd |-> QInt(SumValueUsd(position.debt)),
    resultingCollateralUsd |-> QInt(SumValueUsd(position.collateral)),
    yieldImpact |-> [currentAPY |-> QZero, projectedAPY |-> QZero,
                     yieldDeltaPercent |-> QZero, annualizedCostUsd |-> QZero],
    capitalCostUsd |-> QZero,
    yieldCostAnnualUsd |-> QZero,
    totalScoreUsd |-> QZero,
    viable |-> FALSE ]

\* ProtectionResult; <<>> stands for an absent optional field
Result(success, option, txSignature, previousHF, newHF, error, dryRun) ==
  [ success |-> success, option |-> option, txSignature |-> txSignature,
    previousHF |-> previousHF, newHF |-> newHF, error |-> error, dryRun |-> dryRun ]

\* What one path through protect does: the result it returns, the error it
\* lets propagate, and what it pushes on the execution log.

\* options.length === 0
NoOptionPath(config, position) ==
  [ returns |-> <<Result(FALSE, noOpOption(position), <<>>, position.healthFactor, <<>>,
                         <<"No viable protection options">>, config.dryRun)>>,
    throws |-> <<>>,
    log |-> <<>> ]

\* config.dryRun || !signerKeypair
DryRunPath(position, best) ==
  LET result == Result(TRUE, best, <<>>, position.healthFactor, <<best.resultingHF>>, <<>>, TRUE)
  IN  [returns |-> <<result>>, throws |-> <<>>, log |-> <<result>>]

\* the transaction was built, sent and confirmed
SuccessPath(position, best, signature) ==
  LET result == Result(TRUE, best, <<signature>>, position.healthFactor, <<best.resultingHF>>,
                       <<>>, FALSE)
  IN  [returns |-> <<result>>, throws |-> <<>>, log |-> <<result>>]

\* the handler rethrows instead of reporting
CatchPath_Rethrow(position, best, errorMsg) ==
  [returns |-> <<>>, throws |-> <<errorMsg>>, log |-> <<>>]

\* catch (error)
CatchPath(position, best, errorMsg) ==
  LET result == Result(FALSE, best, <<>>, position.healthFactor, <<>>, <<errorMsg>>, FALSE)
  IN  [returns |-> <<result>>, throws |-> <<>>, log |-> <<result>>]

\* both conditions required for a dry run
IsDryRun_Both(config, signerSupplied) == config.dryRun /\ ~signerSupplied

\* if (this.config.dryRun || !signerKeypair)
IsDryRun(config, signerSupplied) == config.dryRun \/ ~signerSupplied

\* whether new PublicKey(wallet) accepts the string
IsPublicKey(wallet) == wallet # "not-a-key"

\* this.config = { ...this.config, ...updates }
MergeConfig(config, updates) ==
  [f \in DOMAIN config |-> IF f \in DOMAIN updates THEN updates[f] ELSE config[f]]

\* ------------------------------------------------------------------------
\* CollateralAnalyzer (src/unnamed/part_003)
\* ------------------------------------------------------------------------

Profile(symbol, supplyAPY, stakingAPY, effectiveAPY, isLST) ==
  [ symbol |-> symbol, supplyAPY |-> Q(supplyAPY, 1000), stakingAPY |-> Q(stakingAPY, 1000),
    effectiveAPY |-> Q(effectiveAPY, 1000), isLST |-> isLST ]

\* in insertion order, the order Object.entries enumerates
ASSET_REGISTRY ==
  << Profile("SOL", 35, 0, 35, FALSE),
     Profile("mSOL", 28, 72, 100, TRUE),
     Profile("JitoSOL", 30, 78, 108, TRUE),
     Profile("bSOL", 25, 68, 93, TRUE),
     Profile("INF", 32, 82, 114, TRUE),
     Profile("USDC", 55, 0, 55, FALSE),
     Profile("USDT", 48, 0, 48, FALSE),
     Profile("BONK", 15, 0, 15, FALSE),
     Profile("ETH", 20, 0, 20, FALSE) >>

Accept(accepted, pct) == [accepted |-> accepted, liqThreshold |-> Q(pct, 100)]

PROTOCOL_COLLATERAL ==
  [ kamino |->
      [ SOL |-> Accept(TRUE, 85), mSOL |-> Accept(TRUE, 80), JitoSOL |-> Accept(TRUE, 80),
        bSOL |-> Accept(TRUE, 78), INF |-> Accept(TRUE, 75), USDC |-> Accept(TRUE, 90),
        USDT |-> Accept(TRUE, 88), BONK |-> Accept(TRUE, 50), ETH |-> Accept(TRUE, 82) ],
    marginfi |->
      [ SOL |-> Accept(TRUE, 90), mSOL |-> Accept(TRUE, 85), JitoSOL |-> Accept(TRUE, 85),
        bSOL |-> Accept(TRUE, 82), INF |-> Accept(FALSE, 0), USDC |-> Accept(TRUE, 95),
        USDT |-> Accept(TRUE, 92), BONK |-> Accept(TRUE, 40), ETH |-> Accept(TRUE, 85) ],
    solend |->
      [ SOL |-> Accept(TRUE, 85), mSOL |-> Accept(TRUE, 80), JitoSOL |-> Accept(TRUE, 80),
        bSOL |-> Accept(TRUE, 78), INF |-> Accept(FALSE, 0), USDC |-> Accept(TRUE, 90),
        USDT |-> Accept(TRUE, 88), BONK |-> Accept(FALSE, 0), ETH |-> Accept(TRUE, 82) ] ]

MIN_SAFE_HF == Q(125, 100)

\* String.prototype.toUpperCase on the symbols that occur
ToUpperCase(symbol) ==
  CASE symbol \in {"mSOL", "msol"} -> "MSOL"
    [] symbol = "JitoSOL" -> "JITOSOL"
    [] symbol = "bSOL" -> "BSOL"
    [] symbol = "sol" -> "SOL"
    [] OTHER -> symbol

\* <<>> stands for null
resolveAssetProfile(symbol) ==
  LET direct == SelectSeq(ASSET_REGISTRY, LAMBDA pr : pr.symbol = symbol)
      fuzzy == SelectSeq(ASSET_REGISTRY, LAMBDA pr : ToUpperCase(pr.symbol) = ToUpperCase(symbol))
  IN  IF direct # <<>> THEN <<direct[1]>>
      ELSE IF fuzzy # <<>> THEN <<fuzzy[1]>>
      ELSE <<>>

\* profile ? profile.effectiveAPY : 0.02
CurrentAPY(symbol) ==
  IF resolveAssetProfile(symbol) = <<>> THEN Q(2, 100) ELSE resolveAssetProfile(symbol)[1].effectiveAPY

calculateCurrentYield(position) ==
  LET totalCollateral == SumValueUsd(position.collateral)
      Weighted[i \in 0 .. Len(position.collateral)] ==
        IF i = 0 THEN QZero
        ELSE QAdd(Weighted[i - 1],
                  QMul(CurrentAPY(position.collateral[i].symbol), QInt(position.collateral[i].valueUsd)))
      weightedSum == Weighted[Len(position.collateral)]
  IN  IF totalCollateral = 0
      THEN [totalCollateralUsd |-> QZero, weightedAPY |-> QZero, annualYieldUsd |-> QZero]
      ELSE [ totalCollateralUsd |-> QInt(totalCollateral),
             weightedAPY |-> QDiv(weightedSum, QInt(totalCollateral)),
             annualYieldUsd |-> weightedSum ]

\* the recommendation the loop body pushes for one registry entry, <<>> when it continues
Candidate(base, asset, position) ==
  LET currentAPY == CurrentAPY(asset.symbol)
      protocolAssets == PROTOCOL_COLLATERAL[position.protocol]
      pConfig == protocolAssets[base.symbol]
      totalDebt == QInt(SumValueUsd(position.debt))
      totalCollateral == QInt(SumValueUsd(position.collateral))
      currentLiqThreshold == position.liquidationThreshold
      newLiqThreshold == pConfig.liqThreshold
      otherCollateralValue == QSub(totalCollateral, QInt(asset.valueUsd))
      weightedNewThreshold ==
        IF QGt(totalCollateral, QZero)
        THEN QDiv(QAdd(QMul(otherCollateralValue, currentLiqThreshold),
                       QMul(QInt(asset.valueUsd), newLiqThreshold)), totalCollateral)
        ELSE newLiqThreshold
      projectedHF ==
        IF QGt(totalDebt, QZero)
        THEN QDiv(QMul(totalCollateral, weightedNewThreshold), totalDebt)
        ELSE QInt(999)
      yieldBoostAbsolute == QSub(base.effectiveAPY, currentAPY)
  IN  IF base.symbol = asset.symbol THEN <<>>
      ELSE IF base.symbol \notin DOMAIN protocolAssets \/ ~pConfig.accepted THEN <<>>
      ELSE IF QLe(base.effectiveAPY, currentAPY) THEN <<>>
      ELSE << [ fromAsset |-> asset.symbol,
                fromAPY |-> currentAPY,
                toAsset |-> base.symbol,
                toAPY |-> base.effectiveAPY,
                yieldBoostPercent |->
                  IF QGt(currentAPY, QZero)
                  THEN QMul(QDiv(yieldBoostAbsolute, currentAPY), QInt(100)) ELSE QZero,
                yieldBoostAbsolutePercent |-> QMul(yieldBoostAbsolute, QInt(100)),
                annualGainUsd |-> QMul(QInt(asset.valueUsd), yieldBoostAbsolute),
                healthImpact |-> [ currentHF |-> position.healthFactor,
                                   projectedHF |-> projectedHF,
                                   safe |-> QGe(projectedHF, MIN_SAFE_HF) ],
                riskNote |-> IF QLt(newLiqThreshold, currentLiqThreshold)
                             THEN <<QSub(currentLiqThreshold, newLiqThreshold)>> ELSE <<>> ] >>

\* everything the loop over the registry pushes, in registry order
RECURSIVE Candidates(_, _, _)
Candidates(registry, asset, position) ==
  IF registry = <<>> THEN <<>>
  ELSE Candidate(registry[1], asset, position) \o Candidates(Tail(registry), asset, position)

\* sort((a, b) => b.annualGainUsd - a.annualGainUsd), stable
RECURSIVE InsertByGain(_, _)
InsertByGain(sorted, x) ==
  IF sorted = <<>> THEN <<x>>
  ELSE IF QLt(QSub(sorted[1].annualGainUsd, x.annualGainUsd), QZero) THEN <<x>> \o sorted
  ELSE <<sorted[1]>> \o InsertByGain(Tail(sorted), x)

RECURSIVE SortByGain(_, _)
SortByGain(done, todo) ==
  IF todo = <<>> THEN done ELSE SortByGain(InsertByGain(done, todo[1]), Tail(todo))

\* the filter left out
OnlySafe_KeepAll(recommendations) == recommendations

\* filter(r => r.healthImpact.safe)
OnlySafe(recommendations) == SelectSeq(recommendations, LAMBDA r : r.healthImpact.safe)

findBetterAlternatives(asset, position) ==
  SortByGain(<<>>, OnlySafe(Candidates(ASSET_REGISTRY, asset, position)))

\* the recommendations of all collateral assets, in asset order
RECURSIVE AllAlternatives(_, _)
AllAlternatives(assets, position) ==
  IF assets = <<>> THEN <<>>
  ELSE findBetterAlternatives(assets[1], position) \o AllAlternatives(Tail(assets), position)

\* the entry bestSwap holds for a symbol after the loop over the recommendations
RECURSIVE BestSwap(_, _, _)
BestSwap(recommendations, symbol, existing) ==
  IF recommendations = <<>> THEN existing
  ELSE LET rec == recommendations[1]
       IN  IF rec.fromAsset = symbol
              /\ (existing = <<>> \/ QGt(rec.annualGainUsd, existing[1].annualGainUsd))
           THEN BestSwap(Tail(recommendations), symbol, <<rec>>)
           ELSE BestSwap(Tail(recommendations), symbol, existing)

calculateOptimizedYield(position, recommendations) ==
  LET totalCollateral == SumValueUsd(position.collateral)
      Apy(asset) ==
        LET swap == BestSwap(recommendations, asset.symbol, <<>>)
        IN  IF swap # <<>> THEN swap[1].toAPY ELSE CurrentAPY(asset.symbol)
      Optimized[i \in 0 .. Len(position.collateral)] ==
        IF i = 0 THEN QZero
        ELSE QAdd(Optimized[i - 1],
                  QMul(Apy(position.collateral[i]), QInt(position.collateral[i].valueUsd)))
      optimizedYieldSum == Optimized[Len(position.collateral)]
  IN  IF totalCollateral = 0 THEN [weightedAPY |-> QZero, annualYieldUsd |-> QZero]
      ELSE [ weightedAPY |-> QDiv(optimizedYieldSum, QInt(totalCollateral)),
             annualYieldUsd |-> optimizedYieldSum ]

analyzePosition(position) ==
  LET currentYield == calculateCurrentYield(position)
      recommendations == SortByGain(<<>>, AllAlternatives(position.collateral, position))
      optimizedYield == calculateOptimizedYield(position, recommendations)
  IN  [ wallet |-> position.wallet,
        protocol |-> position.protocol,
        currentYield |-> currentYield,
        optimizedYield |-> optimizedYield,
        recommendations |-> recommendations,
        totalBoostPercent |->
          IF QGt(currentYield.weightedAPY, QZero)
          THEN QMul(QDiv(QSub(optimizedYield.weightedAPY, currentYield.weightedAPY),
                         currentYield.weightedAPY), QInt(100))
          ELSE QZero,
        totalBoostUsd |-> QSub(optimizedYield.annualYieldUsd, currentYield.annualYieldUsd) ]

\* ------------------------------------------------------------------------
\* State
\* ------------------------------------------------------------------------

VARIABLES
  riskConfig,      \* RiskEngine.config
  healthHistory,   \* RiskEngine.healthHistory: key -> sequence of snapshots
  now,             \* Date.now(), in ms since the engine was constructed
  nAssess,         \* number of assessPosition calls made
  op,              \* the operation that produced the current state
  lastPosition,    \* argument of the last assessPosition call
  priorHistory,    \* the history of that call's key when the call began
  lastAssessment,  \* value returned by the last assessPosition call
  lastWallet,      \* argument and outcome of the last assessWallet call
  protConfig,      \* ProtectionEngine.config
  executionLog,    \* ProtectionEngine.executionLog
  calls,           \* the protect calls made so far, in call order
  rpc,             \* requests made to the connection (the external executor)
  returned,        \* the results protect has returned, in the order it returned them
  evalArgs,        \* the position and risk level evaluateOptions is called with
  lastEval,        \* argument and value of the last evaluateOptions call
  lastSelect,      \* argument and value of the last selectBestOption call
  evals,           \* the repeated evaluateOptions calls made on evalArgs, with their values
  analyzeArgs,     \* the position analyzePosition is called with
  lastAnalysis,    \* value returned by the last analyzePosition call
  autonomy,        \* VarunaGuardian.autonomy
  keypair,         \* whether the guardian was given a keypair rather than an address
  cycles,          \* the runCheck calls made so far, with where each one stands
  events,          \* what the guardian has emitted, in order
  callers,         \* for each protect call the guardian caused, who made it
  running,         \* VarunaGuardian.running
  intervalHandle,  \* VarunaGuardian.intervalHandle: the timer it holds, 0 for null
  timers,          \* the interval timers that are scheduled
  starting,        \* the runCheck calls a start() call is awaiting
  lastClear,       \* the argument of the last clearHistory call, <<>> for none
  wss,             \* WsAlertServer: TRUE while a WebSocket.Server is attached
  sockets,         \* WsAlertServer: the state of each WebSocket the server was handed
  clients,         \* WsAlertServer.clients: the sockets it tracks
  stats            \* WsAlertServer.stats: connected and peakConnections

riskVars == <<riskConfig, healthHistory, now, nAssess, lastPosition, priorHistory, lastAssessment, lastWallet, lastClear>>
protVars == <<protConfig, executionLog, calls, rpc, returned>>
evalVars == <<evalArgs, lastEval, lastSelect, evals>>
collVars == <<analyzeArgs, lastAnalysis>>
guardVars == <<autonomy, keypair, cycles, events, callers>>
lifeVars == <<running, intervalHandle, timers, starting>>
wsVars == <<wss, sockets, clients, stats>>
vars == <<riskVars, protVars, evalVars, collVars, guardVars, lifeVars, wsVars, op>>

\* ------------------------------------------------------------------------
\* Inputs
\* ------------------------------------------------------------------------

MaxAssess == 2

Wallets == {"w1"}
Protocols == {"kamino", "marginfi", "solend"}
RiskProtocols == {"kamino", "marginfi"}
Keys == Wallets \X Protocols

Asset(symbol, valueUsd) == [symbol |-> symbol, valueUsd |-> valueUsd]

\* collateral / debt / liquidation threshold mixes
Shapes ==
  { [collateral |-> <<Asset("SOL", 13800)>>, debt |-> <<Asset("USDC", 10000)>>,
     liquidationThreshold |-> Q(85, 100)],
    [collateral |-> <<>>, debt |-> <<>>, liquidationThreshold |-> Q(85, 100)],
    [collateral |-> <<Asset("SOL", 600000), Asset("mSOL", 600000)>>,
     debt |-> <<Asset("USDC", 900000)>>, liquidationThreshold |-> Q(80, 100)],
    [collateral |-> <<Asset("SOL", 5000), Asset("USDC", 15000)>>,
     debt |-> <<Asset("USDT", 2000)>>, liquidationThreshold |-> Q(90, 100)] }

HealthFactors ==
  { Q(9, 10), Q(1, 1), Q(104, 100), Q(105, 100), Q(109, 100), Q(11, 10), Q(3, 2) }

TimeSteps == {3000, 60000}

Position(wallet, protocol, shape, hf) ==
  [ wallet |-> wallet, protocol |-> protocol,
    collateral |-> shape.collateral, debt |-> shape.debt,
    healthFactor |-> hf, liquidationThreshold |-> shape.liquidationThreshold ]

RiskPositions ==
  { Position(w, pr, sh, hf) : w \in Wallets, pr \in RiskProtocols, sh \in Shapes, hf \in HealthFactors }

RiskConfigs ==
  { DEFAULT_CONFIG,
    [DEFAULT_CONFIG EXCEPT !.positionSizeScaling = FALSE, !.trendWindowSize = 2, !.trendMinSamples = 2] }

NoPosition == [wallet |-> "", protocol |-> "none"]
NoAssessment == [riskLevel |-> "none", riskScore |-> -1]

\* state of a freshly constructed ProtectionEngine, whatever its configuration
InitEngine ==
  /\ executionLog = <<>>
  /\ calls = <<>>
  /\ rpc = <<>>
  /\ returned = <<>>
  /\ lastEval = [riskLevel |-> "none", options |-> <<>>]
  /\ lastSelect = [options |-> <<>>, selected |-> <<>>]
  /\ evals = <<>>

InitProtection == InitEngine /\ evalArgs = [riskLevel |-> "none"]

\* no guardian has been constructed
Stopped ==
  /\ running = FALSE
  /\ intervalHandle = 0
  /\ timers = {}
  /\ starting = {}

MaxSockets == 3

\* no WebSocket server attached, no socket accepted yet
NoWsServer ==
  /\ wss = FALSE
  /\ sockets = [ws \in 1 .. MaxSockets |-> "idle"]
  /\ clients = {}
  /\ stats = [connected |-> 0, peakConnections |-> 0]

NoGuardian ==
  /\ autonomy = "monitor-only"
  /\ keypair = FALSE
  /\ cycles = <<>>
  /\ events = <<>>
  /\ callers = <<>>
  /\ Stopped

\* the CollateralAnalyzer holds no state
InitCollateral ==
  /\ analyzeArgs = NoPosition
  /\ lastAnalysis = [recommendations |-> <<>>]

\* ------------------------------------------------------------------------
\* RiskEngine operations
\* ------------------------------------------------------------------------

\* state of a freshly constructed RiskEngine, whatever its configuration
InitRiskEngine ==
  /\ healthHistory = [k \in Keys |-> <<>>]
  /\ now = 0
  /\ nAssess = 0
  /\ lastPosition = NoPosition
  /\ priorHistory = <<>>
  /\ lastAssessment = NoAssessment
  /\ lastWallet = [arg |-> <<>>, returns |-> <<>>, throws |-> <<>>]
  /\ lastClear = <<>>

InitRisk == riskConfig \in RiskConfigs /\ InitRiskEngine

\* assessPosition scoring the position before it records the snapshot
AssessPosition_ScoreBeforeSnapshot(position, dt) ==
  LET key == Key(position)
      history == recordSnapshot(riskConfig, healthHistory[key], position.healthFactor, now + dt)
  IN  /\ now' = now + dt
      /\ nAssess' = nAssess + 1
      /\ healthHistory' = [healthHistory EXCEPT ![key] = history]
      /\ lastPosition' = position
      /\ priorHistory' = healthHistory[key]
      /\ lastAssessment' = assessPositionResult(riskConfig, healthHistory[key], position)
      /\ op' = "assessPosition"
      /\ UNCHANGED <<riskConfig, lastClear, lastWallet, protVars, evalVars, collVars, guardVars, lifeVars, wsVars>>

\* assessPosition(position), called dt ms after the previous call
AssessPosition(position, dt) ==
  LET key == Key(position)
      history == recordSnapshot(riskConfig, healthHistory[key], position.healthFactor, now + dt)
  IN  /\ now' = now + dt
      /\ nAssess' = nAssess + 1
      /\ healthHistory' = [healthHistory EXCEPT ![key] = history]
      /\ lastPosition' = position
      /\ priorHistory' = healthHistory[key]
      /\ lastAssessment' = assessPositionResult(riskConfig, history, position)
      /\ op' = "assessPosition"
      /\ UNCHANGED <<riskConfig, lastClear, lastWallet, protVars, evalVars, collVars, guardVars, lifeVars, wsVars>>

NextRisk ==
  /\ nAssess < MaxAssess
  /\ \E position \in RiskPositions, dt \in TimeSteps : AssessPosition(position, dt)

InitSpecRisk ==
  /\ InitRisk /\ InitProtection /\ protConfig = DEFAULT_CONFIG_Protection /\ InitCollateral
  /\ NoGuardian /\ NoWsServer
  /\ op = "init"

SpecRisk == InitSpecRisk /\ [][NextRisk]_vars

\* ------------------------------------------------------------------------
\* assessPosition and assessWallet on one position sampled repeatedly
\* ------------------------------------------------------------------------

MaxSamples == 3

SampledFactors == {Q(3, 2), Q(118, 100)}
SampleSteps == {150000, 300000}

SampledPosition(protocol, hf) ==
  Position("w1", protocol,
           [collateral |-> <<Asset("SOL", 13800)>>, debt |-> <<Asset("USDC", 10000)>>,
            liquidationThreshold |-> Q(85, 100)], hf)

SampledPositions == {SampledPosition(pr, hf) : pr \in RiskProtocols, hf \in SampledFactors}

WalletLists ==
  {<<>>}
    \cup {<<SampledPosition("kamino", hf)>> : hf \in SampledFactors}
    \cup {<<SampledPosition("kamino", hf), SampledPosition("marginfi", Q(118, 100))>> :
            hf \in SampledFactors}

HistoryConfigs ==
  RiskConfigs \cup {[DEFAULT_CONFIG EXCEPT !.trendWindowSize = 1, !.trendMinSamples = 1]}

\* assessWallet(positions), called dt ms after the previous call; the clock
\* is read only when a position is assessed
AssessWallet(positions, dt) ==
  LET timestamp == IF positions = <<>> THEN now ELSE now + dt
  IN  /\ \E outcome \in {assessWallet(riskConfig, healthHistory, positions, timestamp)} :
           /\ healthHistory' = outcome.history
           /\ lastWallet' = [ arg |-> positions, returns |-> outcome.returns,
                              throws |-> outcome.throws ]
      /\ now' = timestamp
      /\ nAssess' = nAssess + Len(positions)
      /\ op' = "assessWallet"
      /\ UNCHANGED <<riskConfig, lastClear, lastPosition, priorHistory, lastAssessment, protVars, evalVars, collVars, guardVars, lifeVars, wsVars>>

NextHistory ==
  \/ /\ nAssess < MaxSamples
     /\ \E position \in SampledPositions, dt \in SampleSteps : AssessPosition(position, dt)
  \/ \E positions \in WalletLists, dt \in SampleSteps :
       nAssess + Len(positions) <= MaxSamples /\ AssessWallet(positions, dt)

InitSpecHistory ==
  /\ InitRiskEngine /\ riskConfig \in HistoryConfigs
  /\ InitProtection /\ protConfig = DEFAULT_CONFIG_Protection
  /\ InitCollateral
  /\ NoGuardian /\ NoWsServer
  /\ op = "init"

SpecHistory == InitSpecHistory /\ [][NextHistory]_vars

\* ------------------------------------------------------------------------
\* clearHistory on an engine that has assessed positions of several wallets
\* ------------------------------------------------------------------------

MaxClearSamples == 3

\* wallet identifiers, one of which begins with another, as the characters
\* they are made of
WalletChars == [w1 |-> <<"w", "1">>, w10 |-> <<"w", "1", "0">>, w2 |-> <<"w", "2">>]

ClearWallets == DOMAIN WalletChars

\* the Map key `${wallet}:${protocol}` as a string; the protocol name, which
\* follows the colon, is kept whole
KeyString(key) == (WalletChars[key[1]] \o <<":">>) \o <<key[2]>>

\* String.prototype.startsWith
startsWith(string, prefix) ==
  Len(prefix) <= Len(string) /\ SubSeq(string, 1, Len(prefix)) = prefix

ClearPositions ==
  { Position(w, pr, [collateral |-> <<Asset("SOL", 13800)>>, debt |-> <<Asset("USDC", 10000)>>,
                     liquidationThreshold |-> Q(85, 100)], Q(1173, 1000)) :
      w \in ClearWallets, pr \in RiskProtocols }

\* the histories after clearHistory(wallet?), wallet being <<>> when the
\* argument is left out; a key the Map does not hold has the history <<>>
clearHistory(histories, wallet) ==
  IF wallet # <<>>
  THEN [key \in DOMAIN histories |->
          IF startsWith(KeyString(key), WalletChars[wallet[1]]) THEN <<>> ELSE histories[key]]
  ELSE [key \in DOMAIN histories |-> <<>>]

\* clearHistory(wallet?)
ClearHistory(wallet) ==
  /\ healthHistory' = clearHistory(healthHistory, wallet)
  /\ lastClear' = <<wallet>>
  /\ op' = "clearHistory"
  /\ UNCHANGED <<riskConfig, now, nAssess, lastPosition, priorHistory, lastAssessment, lastWallet,
                 protVars, evalVars, collVars, guardVars, lifeVars, wsVars>>

NextClear ==
  \/ /\ nAssess < MaxClearSamples
     /\ \E position \in ClearPositions : AssessPosition(position, 60000)
  \/ \E wallet \in {<<w>> : w \in ClearWallets} \cup {<<>>} :
       healthHistory # [key \in DOMAIN healthHistory |-> <<>>] /\ ClearHistory(wallet)

InitSpecClear ==
  /\ riskConfig = DEFAULT_CONFIG
  /\ healthHistory = [key \in ClearWallets \X RiskProtocols |-> <<>>]
  /\ now = 0
  /\ nAssess = 0
  /\ lastPosition = NoPosition
  /\ priorHistory = <<>>
  /\ lastAssessment = NoAssessment
  /\ lastWallet = [arg |-> <<>>, returns |-> <<>>, throws |-> <<>>]
  /\ lastClear = <<>>
  /\ InitProtection /\ protConfig = DEFAULT_CONFIG_Protection
  /\ InitCollateral
  /\ NoGuardian /\ NoWsServer
  /\ op = "init"

SpecClear == InitSpecClear /\ [][NextClear]_vars

\* ------------------------------------------------------------------------
\* assessWallet on lists of one or two positions of a wallet
\* ------------------------------------------------------------------------

MaxWalletAssess == 3

\* a position with the given totals whose reported health factor is the
\* one the adapters compute: collateral x threshold / debt, 999 without debt
Holding(protocol, collateralUsd, debtUsd) ==
  Position("w1", protocol,
           [ collateral |-> <<Asset("SOL", collateralUsd)>>,
             debt |-> IF debtUsd > 0 THEN <<Asset("USDC", debtUsd)>> ELSE <<>>,
             liquidationThreshold |-> Q(80, 100) ],
           IF debtUsd > 0 THEN QDiv(QMul(QInt(collateralUsd), Q(80, 100)), QInt(debtUsd))
           ELSE QInt(999))

\* healthy (HF 3), tight (HF 1.09), near liquidation (HF 1.04) and
\* deposit-only holdings
Holdings ==
  { Holding(pr, 15000, 4000) : pr \in RiskProtocols }
    \cup { Holding("kamino", 13625, 10000), Holding("marginfi", 5000, 0) }
    \cup { Holding(pr, 13000, 10000) : pr \in RiskProtocols }

Portfolios ==
  { <<a>> : a \in Holdings } \cup { <<a, b>> : a \in Holdings, b \in Holdings }

NextWallet ==
  \E positions \in Portfolios :
    nAssess + Len(positions) <= MaxWalletAssess /\ AssessWallet(positions, 60000)

InitSpecWallet ==
  /\ InitRiskEngine /\ riskConfig = DEFAULT_CONFIG
  /\ InitProtection /\ protConfig = DEFAULT_CONFIG_Protection
  /\ InitCollateral
  /\ NoGuardian /\ NoWsServer
  /\ op = "init"

SpecWallet == InitSpecWallet /\ [][NextWallet]_vars

\* ------------------------------------------------------------------------
\* ProtectionEngine operations
\* ------------------------------------------------------------------------

RiskLevels == {"safe", "low", "medium", "high", "critical"}
Strategies == {"balanced", "yield-optimized", "cost-optimized", "speed-optimized"}

ProtShapes ==
  { \* repay and add-collateral fit the default budget, unwind falls short of 90% of target
    [collateral |-> <<Asset("SOL", 13800)>>, debt |-> <<Asset("USDC", 10000)>>,
     liquidationThreshold |-> Q(85, 100)],
    \* all three kinds
    [collateral |-> <<Asset("SOL", 8000), Asset("mSOL", 8000)>>,
     debt |-> <<Asset("USDC", 6000), Asset("USDT", 4000)>>, liquidationThreshold |-> Q(85, 100)],
    \* the same ratios on a large position
    [collateral |-> <<Asset("SOL", 320000)>>, debt |-> <<Asset("USDC", 200000)>>,
     liquidationThreshold |-> Q(85, 100)],
    \* debt without collateral
    [collateral |-> <<>>, debt |-> <<Asset("USDC", 5000)>>, liquidationThreshold |-> Q(85, 100)],
    \* nothing at all
    [collateral |-> <<>>, debt |-> <<>>, liquidationThreshold |-> Q(85, 100)],
    \* already above target
    [collateral |-> <<Asset("USDC", 20000)>>, debt |-> <<Asset("USDT", 2000)>>,
     liquidationThreshold |-> Q(90, 100)],
    \* collateral without debt
    [collateral |-> <<Asset("SOL", 1000)>>, debt |-> <<>>, liquidationThreshold |-> Q(85, 100)] }

EvalPositions ==
  { Position(w, pr, sh, hf) :
      w \in Wallets, pr \in Protocols, sh \in ProtShapes, hf \in {Q(9, 10), Q(1173, 1000)} }

OptionConfigs ==
  { [DEFAULT_CONFIG_Protection EXCEPT !.preferredStrategy = st, !.maxProtectionUsd = QInt(m),
                                      !.yieldRates = yr] :
      st \in Strategies, m \in {10000, 1000},
      yr \in {DEFAULT_YIELD_RATES, [pr \in {"solend"} |-> DEFAULT_YIELD_RATES.solend]} }

\* evaluateOptions(position, assessment); only assessment.riskLevel is read
EvaluateOptions ==
  /\ op = "init"
  /\ lastEval' = [ position |-> evalArgs.position, riskLevel |-> evalArgs.riskLevel,
                   config |-> protConfig,
                   options |-> evaluateOptions(protConfig, evalArgs.position, evalArgs.riskLevel) ]
  /\ op' = "evaluateOptions"
  /\ UNCHANGED <<riskVars, protVars, evalArgs, lastSelect, evals, collVars, guardVars, lifeVars, wsVars>>

\* selectBestOption(options), on the list evaluateOptions returned or on a list
\* that also holds the non-viable no-op option
SelectBestOption(options) ==
  /\ op = "evaluateOptions"
  /\ lastSelect' = [options |-> options, selected |-> selectBestOption(options)]
  /\ op' = "selectBestOption"
  /\ UNCHANGED <<riskVars, protVars, evalArgs, lastEval, evals, collVars, guardVars, lifeVars, wsVars>>

NextOptions ==
  \/ EvaluateOptions
  \/ /\ op = "evaluateOptions"
     /\ \E options \in {lastEval.options, <<noOpOption(lastEval.position)>> \o lastEval.options,
                         <<noOpOption(lastEval.position)>>} :
          SelectBestOption(options)

\* one evaluateOptions call per behaviour, on every configuration, position and risk level
InitSpecOptions ==
  /\ InitRisk /\ riskConfig = DEFAULT_CONFIG /\ InitEngine /\ protConfig \in OptionConfigs
  /\ evalArgs \in [position : EvalPositions, riskLevel : RiskLevels]
  /\ InitCollateral
  /\ NoGuardian /\ NoWsServer
  /\ op = "init"

SpecOptions == InitSpecOptions /\ [][NextOptions]_vars

\* ------------------------------------------------------------------------
\* protect: evaluate, select, execute.  The call runs to its first await in
\* one step; each await of the connection settles in a step of its own, so
\* calls made while another is in flight interleave with it.
\* ------------------------------------------------------------------------

MaxProtect == 2

ProtectPositions ==
  { Position(w, "kamino", sh, Q(1173, 1000)) :
      w \in {"w1", "not-a-key"},
      sh \in { [collateral |-> <<Asset("SOL", 8000), Asset("mSOL", 8000)>>,
                debt |-> <<Asset("USDC", 6000), Asset("USDT", 4000)>>,
                liquidationThreshold |-> Q(85, 100)],
               [collateral |-> <<Asset("USDC", 20000)>>, debt |-> <<Asset("USDT", 2000)>>,
                liquidationThreshold |-> Q(90, 100)] } }

ProtectLevels == {"low", "critical"}

ProtectConfigs == {DEFAULT_CONFIG_Protection, [DEFAULT_CONFIG_Protection EXCEPT !.dryRun = FALSE]}

ConfigUpdates == {[dryRun |-> TRUE], [dryRun |-> FALSE]}

BlockhashError == "failed to get recent blockhash"
SendError == "Transaction was not confirmed"

\* a call that has returned (or thrown) by the path given
Returned(call, path) ==
  [call EXCEPT !.stage = "returned", !.returns = path.returns, !.throws = path.throws]

Finish(path) ==
  /\ executionLog' = executionLog \o path.log
  /\ returned' = returned \o path.returns

\* protect's steps after evaluateOptions has returned options, for the
\* id-th call made under config: the call as it stands at its first await
\* or its return, what it has pushed on the execution log, what it has
\* returned, what it has requested of the connection
ProtectEvaluated(config, position, riskLevel, signerSupplied, id, options) ==
  LET best == selectBestOption(options)[1]
      call == [ position |-> position, riskLevel |-> riskLevel, signer |-> signerSupplied,
                config |-> config, stage |-> "called", best |-> <<>>, raised |-> <<>>,
                returns |-> <<>>, throws |-> <<>> ]
      Ended(ended, path) ==
        [call |-> Returned(ended, path), log |-> path.log, returns |-> path.returns, rpc |-> <<>>]
  IN  IF options = <<>>
      THEN Ended(call, NoOptionPath(config, position))
      ELSE IF IsDryRun(config, signerSupplied)
      THEN Ended([call EXCEPT !.best = <<best>>], DryRunPath(position, best))
      ELSE IF ~IsPublicKey(position.wallet)
      THEN Ended([call EXCEPT !.best = <<best>>, !.raised = <<"Invalid public key input">>],
                 CatchPath(position, best, "Invalid public key input"))
      ELSE [ call |-> [call EXCEPT !.best = <<best>>, !.stage = "awaitBlockhash"],
             log |-> <<>>, returns |-> <<>>,
             rpc |-> <<[call |-> id, method |-> "getLatestBlockhash"]>> ]

\* protect(position, assessment, signerKeypair?) up to its first await, as
\* the id-th call made under config
ProtectStart(config, position, riskLevel, signerSupplied, id) ==
  ProtectEvaluated(config, position, riskLevel, signerSupplied, id,
                   evaluateOptions(config, position, riskLevel))

\* protect(position, assessment, signerKeypair?) up to its first await
Protect(position, riskLevel, signerSupplied) ==
  /\ Len(calls) < MaxProtect
  /\ op' = "protect"
  /\ UNCHANGED <<riskVars, evalVars, protConfig, collVars, guardVars, lifeVars, wsVars>>
  /\ \E start \in {ProtectStart(protConfig, position, riskLevel, signerSupplied, Len(calls) + 1)} :
       /\ calls' = Append(calls, start.call)
       /\ executionLog' = executionLog \o start.log
       /\ returned' = returned \o start.returns
       /\ rpc' = rpc \o start.rpc

\* buildTransaction's await of connection.getLatestBlockhash() settles
BlockhashSettled(i, ok) ==
  /\ calls[i].stage = "awaitBlockhash"
  /\ op' = "blockhashSettled"
  /\ UNCHANGED <<riskVars, evalVars, protConfig, collVars, guardVars, lifeVars, wsVars>>
  /\ IF ok
     THEN /\ calls' = [calls EXCEPT ![i].stage = "awaitSend"]
          /\ rpc' = Append(rpc, [call |-> i, method |-> "sendAndConfirmTransaction"])
          /\ UNCHANGED <<executionLog, returned>>
     ELSE LET path == CatchPath(calls[i].position, calls[i].best[1], BlockhashError)
          IN  /\ calls' = [calls EXCEPT ![i] = Returned([@ EXCEPT !.raised = <<BlockhashError>>], path)]
              /\ Finish(path)
              /\ UNCHANGED rpc

\* the await of sendAndConfirmTransaction settles
SendSettled(i, ok) ==
  /\ calls[i].stage = "awaitSend"
  /\ op' = "sendSettled"
  /\ UNCHANGED <<riskVars, evalVars, protConfig, rpc, collVars, guardVars, lifeVars, wsVars>>
  /\ LET path == IF ok
                 THEN SuccessPath(calls[i].position, calls[i].best[1], <<"signature", i>>)
                 ELSE CatchPath(calls[i].position, calls[i].best[1], SendError)
     IN  /\ calls' = [calls EXCEPT
                        ![i] = Returned([@ EXCEPT !.raised = IF ok THEN <<>> ELSE <<SendError>>], path)]
         /\ Finish(path)

\* updateConfig(updates)
UpdateConfig(updates) ==
  /\ protConfig' = MergeConfig(protConfig, updates)
  /\ protConfig' # protConfig
  /\ op' = "updateConfig"
  /\ UNCHANGED <<riskVars, evalVars, executionLog, calls, rpc, returned, collVars, guardVars, lifeVars, wsVars>>

NextProtect ==
  \/ \E position \in ProtectPositions, riskLevel \in ProtectLevels, signerSupplied \in BOOLEAN :
       Protect(position, riskLevel, signerSupplied)
  \/ \E i \in DOMAIN calls, ok \in BOOLEAN : BlockhashSettled(i, ok)
  \/ \E i \in DOMAIN calls, ok \in BOOLEAN : SendSettled(i, ok)
  \/ \E updates \in ConfigUpdates : UpdateConfig(updates)

InitSpecProtect ==
  /\ InitRisk /\ riskConfig = DEFAULT_CONFIG /\ InitProtection /\ protConfig \in ProtectConfigs
  /\ InitCollateral
  /\ NoGuardian /\ NoWsServer
  /\ op = "init"

SpecProtect == InitSpecProtect /\ [][NextProtect]_vars

\* ------------------------------------------------------------------------
\* evaluateOptions called repeatedly on one position and assessment, between
\* protect calls and configuration updates
\* ------------------------------------------------------------------------

MaxEvals == 2
MaxEvalProtect == 1

EvalCallArgs ==
  { [position |-> Position("w1", "kamino", sh, Q(1173, 1000)), riskLevel |-> "critical"] :
      sh \in { [collateral |-> <<Asset("SOL", 8000), Asset("mSOL", 8000)>>,
                debt |-> <<Asset("USDC", 6000), Asset("USDT", 4000)>>,
                liquidationThreshold |-> Q(85, 100)] } }

EvalConfigUpdates == ConfigUpdates \cup {[maxProtectionUsd |-> QInt(1000)]}

\* an evaluateOptions call that spends the budget of the engine's configuration
EvaluateOptionsCall_SpendsBudget ==
  LET options == evaluateOptions(protConfig, evalArgs.position, evalArgs.riskLevel)
  IN  /\ Len(evals) < MaxEvals
      /\ evals' = Append(evals, [ position |-> evalArgs.position, riskLevel |-> evalArgs.riskLevel,
                                  config |-> protConfig, after |-> Len(calls),
                                  options |-> options ])
      /\ protConfig' = IF options = <<>> THEN protConfig
                       ELSE [protConfig EXCEPT
                               !.maxProtectionUsd = QSub(@, QMin(@, options[1].amount))]
      /\ op' = "evaluateOptions"
      /\ UNCHANGED <<riskVars, executionLog, calls, rpc, returned, evalArgs, lastEval, lastSelect, collVars, guardVars, lifeVars, wsVars>>

\* evaluateOptions(position, assessment) on evalArgs; the entry records the
\* configuration read and the number of protect calls made before it
EvaluateOptionsCall ==
  /\ Len(evals) < MaxEvals
  /\ evals' = Append(evals, [ position |-> evalArgs.position, riskLevel |-> evalArgs.riskLevel,
                              config |-> protConfig, after |-> Len(calls),
                              options |-> evaluateOptions(protConfig, evalArgs.position,
                                                          evalArgs.riskLevel) ])
  /\ op' = "evaluateOptions"
  /\ UNCHANGED <<riskVars, protVars, evalArgs, lastEval, lastSelect, collVars, guardVars, lifeVars, wsVars>>

NextEvaluate ==
  \/ EvaluateOptionsCall
  \/ Len(calls) < MaxEvalProtect /\ Protect(evalArgs.position, evalArgs.riskLevel, TRUE)
  \/ \E i \in DOMAIN calls, ok \in BOOLEAN : BlockhashSettled(i, ok)
  \/ \E i \in DOMAIN calls, ok \in BOOLEAN : SendSettled(i, ok)
  \/ \E updates \in EvalConfigUpdates : UpdateConfig(updates)

InitSpecEvaluate ==
  /\ InitRisk /\ riskConfig = DEFAULT_CONFIG /\ InitEngine /\ protConfig \in ProtectConfigs
  /\ evalArgs \in EvalCallArgs
  /\ InitCollateral
  /\ NoGuardian /\ NoWsServer
  /\ op = "init"

SpecEvaluate == InitSpecEvaluate /\ [][NextEvaluate]_vars

\* ------------------------------------------------------------------------
\* PositionMonitor.evaluateProtection and executeProtection
\* (src/services/monitor.ts): fetch the position, assess it, then evaluate
\* the options for that assessment or protect the position
\* ------------------------------------------------------------------------

\* evaluateProtection(wallet, protocol), the adapter answering with position
\* (NoPosition stands for null) dt ms after the engine was constructed
EvaluateProtection(position, dt) ==
  /\ op = "init"
  /\ op' = "evaluateProtection"
  /\ UNCHANGED <<riskConfig, lastClear, lastWallet, protVars, evalArgs, lastSelect, evals, collVars, guardVars, lifeVars, wsVars>>
  /\ IF position = NoPosition
     THEN UNCHANGED <<healthHistory, now, nAssess, lastPosition, priorHistory, lastAssessment, lastEval>>
     ELSE \E history \in {recordSnapshot(riskConfig, healthHistory[Key(position)],
                                         position.healthFactor, now + dt)} :
          \E assessment \in {assessPositionResult(riskConfig, history, position)} :
            /\ now' = now + dt
            /\ nAssess' = nAssess + 1
            /\ healthHistory' = [healthHistory EXCEPT ![Key(position)] = history]
            /\ lastPosition' = position
            /\ priorHistory' = healthHistory[Key(position)]
            /\ lastAssessment' = assessment
            /\ lastEval' = [ position |-> position, riskLevel |-> assessment.riskLevel,
                             config |-> protConfig,
                             options |-> evaluateOptions(protConfig, position, assessment.riskLevel) ]

\* executeProtection(wallet, protocol), the adapter answering with position
\* (NoPosition stands for null) dt ms after the engine was constructed; the
\* protect call is made without a keypair
ExecuteProtection(position, dt) ==
  /\ op = "init"
  /\ op' = "executeProtection"
  /\ UNCHANGED <<riskConfig, lastClear, lastWallet, protConfig, evalVars, collVars, guardVars, lifeVars, wsVars>>
  /\ IF position = NoPosition
     THEN UNCHANGED <<healthHistory, now, nAssess, lastPosition, priorHistory, lastAssessment,
                      executionLog, calls, rpc, returned>>
     ELSE \E history \in {recordSnapshot(riskConfig, healthHistory[Key(position)],
                                         position.healthFactor, now + dt)} :
          \E assessment \in {assessPositionResult(riskConfig, history, position)} :
          \E start \in {ProtectStart(protConfig, position, assessment.riskLevel, FALSE,
                                     Len(calls) + 1)} :
            /\ now' = now + dt
            /\ nAssess' = nAssess + 1
            /\ healthHistory' = [healthHistory EXCEPT ![Key(position)] = history]
            /\ lastPosition' = position
            /\ priorHistory' = healthHistory[Key(position)]
            /\ lastAssessment' = assessment
            /\ calls' = Append(calls, start.call)
            /\ executionLog' = executionLog \o start.log
            /\ returned' = returned \o start.returns
            /\ rpc' = rpc \o start.rpc

NextMonitor ==
  \/ \E position \in EvalPositions \cup {NoPosition}, dt \in TimeSteps :
       EvaluateProtection(position, dt)
  \/ \E position \in EvalPositions \cup {NoPosition}, dt \in TimeSteps :
       ExecuteProtection(position, dt)

\* one call per behaviour, on every configuration and position
InitSpecMonitor ==
  /\ InitRisk /\ InitEngine /\ protConfig \in OptionConfigs
  /\ evalArgs = [riskLevel |-> "none"]
  /\ InitCollateral
  /\ NoGuardian /\ NoWsServer
  /\ op = "init"

SpecMonitor == InitSpecMonitor /\ [][NextMonitor]_vars

\* ------------------------------------------------------------------------
\* VarunaGuardian (src/sdk/guardian.ts): start() runs one check and then sets
\* the interval timer; every tick calls runCheck.  A runCheck call runs to
\* its next await of the outside world in one step: the position fetch of
\* checkHealth, and, in full-auto mode, a protect call that goes to the
\* connection.  Nothing keeps a tick from starting a runCheck while an
\* earlier one is suspended.
\* ------------------------------------------------------------------------

MaxCycles == 3
MaxInFlight == 2
MaxApprovals == 1

Autonomies == {"monitor-only", "approve", "full-auto"}

\* config.monitorInterval || 30000
MonitorInterval == 30000

\* kamino and marginfi positions as the adapters report them
Risky(protocol) ==
  Position("w1", protocol,
           [collateral |-> <<Asset("SOL", 13000)>>, debt |-> <<Asset("USDC", 10000)>>,
            liquidationThreshold |-> Q(80, 100)], Q(104, 100))

Healthy(protocol) ==
  Position("w1", protocol,
           [collateral |-> <<Asset("SOL", 15000)>>, debt |-> <<Asset("USDC", 8000)>>,
            liquidationThreshold |-> Q(80, 100)], Q(3, 2))

\* what getAllPositions may resolve to
FetchedLists == { <<Healthy("kamino"), Risky("marginfi")>> }

\* the ProtectionEngine configuration the constructor leaves
GuardianConfig(mode, hasKeypair) ==
  MergeConfig(DEFAULT_CONFIG_Protection,
              [ targetHealthFactor |-> Q(3, 2), maxProtectionUsd |-> QInt(10000),
                dryRun |-> (mode = "monitor-only" \/ ~hasKeypair),
                preferredStrategy |-> "yield-optimized" ])

\* a runCheck call awaiting checkHealth
NewCycle == [pc |-> "awaitFetch", positions |-> <<>>, levels |-> <<>>, i |-> 0, call |-> 0]

\* the engine and emitter state a runCheck call works on
Engine ==
  [ calls |-> calls, executionLog |-> executionLog, returned |-> returned, rpc |-> rpc,
    events |-> events, callers |-> callers ]

\* the engine state once a protect call made by caller has run to its
\* first await or its return, start being what the call did
Started(st, caller, start) ==
  [st EXCEPT !.calls = Append(@, start.call),
             !.callers = Append(@, caller),
             !.executionLog = @ \o start.log,
             !.returned = @ \o start.returns,
             !.rpc = @ \o start.rpc]

\* a protect call made by caller, up to its first await
StartProtect(st, position, riskLevel, caller) ==
  Started(st, caller, ProtectStart(protConfig, position, riskLevel, keypair, Len(st.calls) + 1))

\* the 'protection' event for the i-th position of cycle c
ProtectionEvent(c, idx, position, riskLevel, result, approve) ==
  [ type |-> "protection", cycle |-> c, index |-> idx, protocol |-> position.protocol,
    riskLevel |-> riskLevel, result |-> result, approve |-> approve ]

\* full-auto: handleProtection once its protect call has started; it emits
\* the event if the call has returned and is suspended if it has not
Executing(c, idx, position, riskLevel, started) ==
  LET call == started.calls[Len(started.calls)]
  IN  IF call.stage = "returned"
      THEN [ st |-> [started EXCEPT !.events =
                       Append(@, ProtectionEvent(c, idx, position, riskLevel, call.returns, FALSE))],
             suspended |-> FALSE ]
      ELSE [st |-> started, suspended |-> TRUE]

\* handleProtection that executes whatever the autonomy mode
handleProtection_AlwaysExecutes(st, c, idx, position, riskLevel) ==
  Executing(c, idx, position, riskLevel,
            StartProtect(st, position, riskLevel, [by |-> "runCheck", cycle |-> c, index |-> idx]))

\* handleProtection(position, assessment) up to its await of protect, if any
handleProtection(st, c, idx, position, riskLevel) ==
  IF autonomy = "monitor-only"
  THEN [ st |-> [st EXCEPT !.events =
                   Append(@, ProtectionEvent(c, idx, position, riskLevel, <<>>, FALSE))],
         suspended |-> FALSE ]
  ELSE IF autonomy = "approve"
  THEN [ st |-> [st EXCEPT !.events =
                   Append(@, ProtectionEvent(c, idx, position, riskLevel, <<>>, TRUE))],
         suspended |-> FALSE ]
  ELSE Executing(c, idx, position, riskLevel,
                 StartProtect(st, position, riskLevel, [by |-> "runCheck", cycle |-> c, index |-> idx]))

\* runCheck's loop over the positions, from the i-th on, until it ends or
\* awaits a protect call that went to the connection
RECURSIVE RunLoop(_, _, _, _, _)
RECURSIVE AfterHandling(_, _, _, _, _)
RunLoop(st, c, positions, levels, idx) ==
  IF idx > Len(positions) THEN [st |-> st, pc |-> "done", i |-> idx, levels |-> levels]
  ELSE IF levels[idx] \notin {"critical", "high"} THEN RunLoop(st, c, positions, levels, idx + 1)
  ELSE AfterHandling(c, positions, levels, idx,
                     handleProtection(st, c, idx, positions[idx], levels[idx]))

\* the loop once handleProtection has run for the i-th position
AfterHandling(c, positions, levels, idx, handled) ==
  IF handled.suspended
  THEN [st |-> handled.st, pc |-> "awaitProtect", i |-> idx, levels |-> levels]
  ELSE RunLoop(handled.st, c, positions, levels, idx + 1)

\* the alerts checkHealth raises: critical, high and medium assessments
RECURSIVE Alerts(_, _, _)
Alerts(c, positions, assessments) ==
  IF positions = <<>> THEN <<>>
  ELSE LET level == assessments[1].riskLevel
           kind == IF level = "critical"
                   THEN IF QLe(positions[1].healthFactor, QInt(1)) THEN "liquidated" ELSE "critical"
                   ELSE IF level = "high" THEN "critical" ELSE "warning"
       IN  (IF level \in {"critical", "high", "medium"}
            THEN <<[type |-> "alert", cycle |-> c, protocol |-> positions[1].protocol, alert |-> kind]>>
            ELSE <<>>) \o Alerts(c, Tail(positions), Tail(assessments))

\* what a step leaves of the engine and emitter state st
Leave(st) ==
  /\ calls' = st.calls
  /\ executionLog' = st.executionLog
  /\ returned' = st.returned
  /\ rpc' = st.rpc
  /\ events' = st.events
  /\ callers' = st.callers

\* start(): unless the guardian is running, it is marked running and a
\* runCheck begins, which start() awaits
Start ==
  /\ ~running
  /\ Len(cycles) < MaxCycles
  /\ running' = TRUE
  /\ cycles' = Append(cycles, NewCycle)
  /\ starting' = starting \cup {Len(cycles) + 1}
  /\ op' = "start"
  /\ UNCHANGED <<riskVars, protVars, evalVars, collVars, autonomy, keypair, events, callers,
                 intervalHandle, timers, wsVars>>

\* start() resumes when the runCheck call c it awaits has ended, in the
\* same turn of the event loop: it sets the interval timer
StartResumes(c, pc) ==
  IF pc = "done" /\ c \in starting
  THEN /\ intervalHandle' = c
       /\ timers' = timers \cup {c}
       /\ starting' = starting \ {c}
       /\ UNCHANGED running
  ELSE UNCHANGED lifeVars

\* stop()
Stop ==
  /\ IF intervalHandle # 0
     THEN timers' = timers \ {intervalHandle} /\ intervalHandle' = 0
     ELSE UNCHANGED <<intervalHandle, timers>>
  /\ running' = FALSE
  /\ op' = "stop"
  /\ UNCHANGED <<riskVars, protVars, evalVars, collVars, guardVars, starting, wsVars>>

\* a scheduled interval timer fires: its callback calls runCheck
Tick ==
  /\ timers # {}
  /\ Len(cycles) < MaxCycles
  /\ Cardinality({c \in DOMAIN cycles : cycles[c].pc # "done"}) < MaxInFlight
  /\ cycles' = Append(cycles, NewCycle)
  /\ now' = now + MonitorInterval
  /\ op' = "tick"
  /\ UNCHANGED <<riskConfig, lastClear, healthHistory, nAssess, lastPosition, priorHistory, lastAssessment,
                 lastWallet, protVars, evalVars, collVars, autonomy, keypair, events, callers,
                 lifeVars, wsVars>>

\* what runCheck does once checkHealth has returned checked for positions
\* and assessWallet has returned or thrown walletRisk
AfterCheck(c, positions, checked, walletRisk) ==
  LET levels == [idx \in DOMAIN positions |-> checked.assessments[idx].riskLevel]
      check == [type |-> "check", cycle |-> c, risk |-> walletRisk.returns[1].overallRiskLevel]
      caught == [type |-> "error", cycle |-> c, context |-> "check"]
      emitted == [Engine EXCEPT !.events = (@ \o <<check>>) \o Alerts(c, positions, checked.assessments)]
  IN  IF walletRisk.throws # <<>>
      THEN [st |-> [Engine EXCEPT !.events = Append(@, caught)], pc |-> "done", i |-> 0, levels |-> levels]
      ELSE [RunLoop(emitted, c, positions, levels, 1) EXCEPT !.levels = levels]

\* the fetch of cycle c resolves to positions: checkHealth assesses them,
\* runCheck assesses the wallet, emits 'check' and the alerts and goes
\* through the positions
FetchSettled(c, positions) ==
  /\ cycles[c].pc = "awaitFetch"
  /\ \E checked \in {AssessEach(riskConfig, healthHistory, positions, now)} :
     \E walletRisk \in {assessWallet(riskConfig, checked.history, positions, now)} :
     \E run \in {AfterCheck(c, positions, checked, walletRisk)} :
       LET fetched == Len(positions)
       IN  /\ healthHistory' = walletRisk.history
           /\ nAssess' = nAssess + 2 * fetched
           /\ lastWallet' = [ arg |-> positions, returns |-> walletRisk.returns,
                              throws |-> walletRisk.throws ]
           /\ IF positions = <<>>
              THEN UNCHANGED <<lastPosition, priorHistory, lastAssessment>>
              ELSE /\ lastPosition' = positions[fetched]
                   /\ priorHistory' =
                        AssessEach(riskConfig, checked.history, SubSeq(positions, 1, fetched - 1),
                                   now).history[Key(positions[fetched])]
                   /\ lastAssessment' = walletRisk.returns[1].positions[fetched]
           /\ Leave(run.st)
           /\ StartResumes(c, run.pc)
           /\ cycles' = [cycles EXCEPT ![c] = [ pc |-> run.pc, positions |-> positions,
                                                levels |-> run.levels, i |-> run.i,
                                                call |-> IF run.pc = "awaitProtect"
                                                         THEN Len(run.st.calls) ELSE 0 ]]
  /\ op' = "fetchSettled"
  /\ UNCHANGED <<riskConfig, lastClear, now, protConfig, evalVars, collVars, autonomy, keypair, wsVars>>

\* what runCheck does once the protect call cycle c awaits has returned:
\* handleProtection emits the event and the loop goes on
AfterProtect(c) ==
  LET cycle == cycles[c]
      call == calls[cycle.call]
      event == ProtectionEvent(c, cycle.i, cycle.positions[cycle.i], cycle.levels[cycle.i],
                               call.returns, FALSE)
      caught == [type |-> "error", cycle |-> c, context |-> "check"]
  IN  IF call.throws # <<>>
      THEN [st |-> [Engine EXCEPT !.events = Append(@, caught)], pc |-> "done", i |-> cycle.i]
      ELSE RunLoop([Engine EXCEPT !.events = Append(@, event)], c, cycle.positions,
                   cycle.levels, cycle.i + 1)

\* the protect call cycle c awaits has returned
ProtectReturned(c) ==
  /\ cycles[c].pc = "awaitProtect"
  /\ calls[cycles[c].call].stage = "returned"
  /\ \E run \in {AfterProtect(c)} :
       /\ Leave(run.st)
       /\ StartResumes(c, run.pc)
       /\ cycles' = [cycles EXCEPT ![c].pc = run.pc, ![c].i = run.i,
                                   ![c].call = IF run.pc = "awaitProtect"
                                               THEN Len(run.st.calls) ELSE 0]
  /\ op' = "protectReturned"
  /\ UNCHANGED <<riskVars, protConfig, evalVars, collVars, autonomy, keypair, wsVars>>

\* a listener invokes the approve callback of the e-th event
Approve(e) ==
  LET event == events[e]
      cycle == cycles[event.cycle]
  IN  /\ event.type = "protection"
      /\ event.approve
      /\ Cardinality({k \in DOMAIN callers : callers[k].by = "approve"}) < MaxApprovals
      /\ \E started \in {StartProtect(Engine, cycle.positions[event.index], event.riskLevel,
                                       [by |-> "approve", event |-> e])} : Leave(started)
      /\ op' = "approve"
      /\ UNCHANGED <<riskVars, protConfig, evalVars, collVars, autonomy, keypair, cycles, lifeVars, wsVars>>

NextGuardian ==
  \/ Start
  \/ Tick
  \/ \E c \in DOMAIN cycles, positions \in FetchedLists : FetchSettled(c, positions)
  \/ \E c \in DOMAIN cycles : ProtectReturned(c)
  \/ \E e \in DOMAIN events : Approve(e)
  \/ \E i \in DOMAIN calls : BlockhashSettled(i, TRUE)
  \/ \E i \in DOMAIN calls, ok \in BOOLEAN : SendSettled(i, ok)

\* a guardian constructed in any mode, with or without a keypair
InitSpecGuardian ==
  /\ InitRiskEngine /\ riskConfig = DEFAULT_CONFIG
  /\ InitProtection
  /\ InitCollateral
  /\ autonomy \in Autonomies
  /\ keypair \in BOOLEAN
  /\ protConfig = GuardianConfig(autonomy, keypair)
  /\ cycles = <<>>
  /\ events = <<>>
  /\ callers = <<>>
  /\ Stopped /\ NoWsServer
  /\ op = "init"

SpecGuardian == InitSpecGuardian /\ [][NextGuardian]_vars

\* start() and stop() called at any time on a monitor-only guardian
NextLifecycle ==
  \/ Start
  \/ Stop
  \/ Tick
  \/ \E c \in DOMAIN cycles, positions \in FetchedLists : FetchSettled(c, positions)

InitSpecLifecycle ==
  /\ InitSpecGuardian
  /\ autonomy = "monitor-only"
  /\ keypair = FALSE

SpecLifecycle == InitSpecLifecycle /\ [][NextLifecycle]_vars

\* ------------------------------------------------------------------------
\* CollateralAnalyzer operations
\* ------------------------------------------------------------------------

CollateralMixes ==
  { <<Asset("SOL", 10000)>>,
    <<Asset("SOL", 5000), Asset("USDC", 5000)>>,
    <<Asset("BONK", 8000), Asset("mSOL", 2000)>>,
    <<Asset("msol", 10000)>>,
    <<Asset("COLLATERAL", 10000)>>,
    <<Asset("INF", 4000), Asset("SOL", 4000)>>,
    <<>> }

DebtMixes ==
  { <<>>, <<Asset("USDC", 4000)>>, <<Asset("USDC", 6500)>>, <<Asset("USDC", 4000), Asset("USDT", 4000)>> }

AnalyzePositions ==
  { Position(w, pr, [collateral |-> c, debt |-> d, liquidationThreshold |-> t], hf) :
      w \in Wallets, pr \in Protocols, c \in CollateralMixes, d \in DebtMixes,
      t \in {Q(85, 100), Q(80, 100)}, hf \in {Q(13, 10)} }

\* analyzePosition(position)
AnalyzePosition ==
  /\ op = "init"
  /\ lastAnalysis' = analyzePosition(analyzeArgs)
  /\ op' = "analyzePosition"
  /\ UNCHANGED <<riskVars, protVars, evalVars, analyzeArgs, guardVars, lifeVars, wsVars>>

NextCollateral == AnalyzePosition

\* one analyzePosition call per behaviour, on every position
InitSpecCollateral ==
  /\ InitRisk /\ riskConfig = DEFAULT_CONFIG /\ InitProtection
  /\ protConfig = DEFAULT_CONFIG_Protection
  /\ analyzeArgs \in AnalyzePositions
  /\ lastAnalysis = [recommendations |-> <<>>]
  /\ NoGuardian /\ NoWsServer
  /\ op = "init"

SpecCollateral == InitSpecCollateral /\ [][NextCollateral]_vars

\* ------------------------------------------------------------------------
\* evaluateOptions and analyzePosition called again and again on one
\* position of which only the reported healthFactor changes
\* ------------------------------------------------------------------------

ReportedHealthFactors == {Q(9, 10), Q(1173, 1000), Q(3, 1)}

ProjectionPositions ==
  {p \in EvalPositions : p.healthFactor = Q(9, 10)} \cup
  {p \in AnalyzePositions : p.liquidationThreshold = Q(85, 100)}

\* evaluateOptions(position, assessment), the position reporting healthFactor hf
EvaluateOptionsReporting(hf) ==
  /\ lastEval' = [ position |-> [evalArgs.position EXCEPT !.healthFactor = hf],
                   riskLevel |-> evalArgs.riskLevel,
                   config |-> protConfig,
                   options |-> evaluateOptions(protConfig,
                                               [evalArgs.position EXCEPT !.healthFactor = hf],
                                               evalArgs.riskLevel) ]
  /\ op' = "evaluateOptions"
  /\ UNCHANGED <<riskVars, protVars, evalArgs, lastSelect, evals, collVars, guardVars, lifeVars, wsVars>>

\* analyzePosition(position), the position reporting healthFactor hf
AnalyzePositionReporting(hf) ==
  /\ lastAnalysis' = analyzePosition([analyzeArgs EXCEPT !.healthFactor = hf])
  /\ op' = "analyzePosition"
  /\ UNCHANGED <<riskVars, protVars, evalVars, analyzeArgs, guardVars, lifeVars, wsVars>>

NextProjection ==
  \/ \E hf \in ReportedHealthFactors : EvaluateOptionsReporting(hf)
  \/ \E hf \in ReportedHealthFactors : AnalyzePositionReporting(hf)

InitSpecProjection ==
  /\ InitRisk /\ riskConfig = DEFAULT_CONFIG /\ InitEngine
  /\ protConfig \in {DEFAULT_CONFIG_Protection,
                      [DEFAULT_CONFIG_Protection EXCEPT !.preferredStrategy = "balanced"]}
  /\ \E position \in ProjectionPositions :
       /\ evalArgs \in [position : {position}, riskLevel : {"medium", "high", "critical"}]
       /\ analyzeArgs = position
  /\ lastAnalysis = [recommendations |-> <<>>]
  /\ NoGuardian /\ NoWsServer
  /\ op = "init"

SpecProjection == InitSpecProjection /\ [][NextProjection]_vars

\* ------------------------------------------------------------------------
\* WsAlertServer: connections accepted, socket events, close()
\* (the 'message' listener and the broadcasts touch neither clients nor
\* the two counters and are left out)
\* ------------------------------------------------------------------------

\* attach(server)
Attach ==
  /\ wss' = TRUE
  /\ op' = "attach"
  /\ UNCHANGED <<riskVars, protVars, evalVars, collVars, guardVars, lifeVars, sockets, clients, stats>>

\* the server's 'connection' event: handleConnection(ws)
handleConnection(ws) ==
  /\ wss
  /\ sockets[ws] = "idle"
  /\ sockets' = [sockets EXCEPT ![ws] = "open"]
  /\ clients' = clients \cup {ws}
  /\ stats' = [ connected |-> stats.connected + 1,
                peakConnections |-> Max(stats.peakConnections, stats.connected + 1) ]
  /\ op' = "connection"
  /\ UNCHANGED <<riskVars, protVars, evalVars, collVars, guardVars, lifeVars, wss>>

\* the socket's 'error' event; the socket emits 'close' afterwards
OnError(ws) ==
  /\ sockets[ws] = "open"
  /\ sockets' = [sockets EXCEPT ![ws] = "errored"]
  /\ clients' = clients \ {ws}
  /\ stats' = [stats EXCEPT !.connected = @ - 1]
  /\ op' = "error"
  /\ UNCHANGED <<riskVars, protVars, evalVars, collVars, guardVars, lifeVars, wss>>

\* the socket's 'close' event, emitted once, after an 'error' or without one
OnClose(ws) ==
  /\ sockets[ws] \in {"open", "errored"}
  /\ sockets' = [sockets EXCEPT ![ws] = "closed"]
  /\ clients' = clients \ {ws}
  /\ stats' = [stats EXCEPT !.connected = @ - 1]
  /\ op' = "close"
  /\ UNCHANGED <<riskVars, protVars, evalVars, collVars, guardVars, lifeVars, wss>>

\* close(): the sockets it tracked emit their 'close' later
Close ==
  /\ wss' = FALSE
  /\ clients' = {}
  /\ stats' = [stats EXCEPT !.connected = 0]
  /\ op' = "closeServer"
  /\ UNCHANGED <<riskVars, protVars, evalVars, collVars, guardVars, lifeVars, sockets>>

NextWs ==
  \/ Attach
  \/ \E ws \in 1 .. MaxSockets : handleConnection(ws)
  \/ \E ws \in 1 .. MaxSockets : OnError(ws)
  \/ \E ws \in 1 .. MaxSockets : OnClose(ws)
  \/ Close

InitSpecWs ==
  /\ InitRisk /\ riskConfig = DEFAULT_CONFIG
  /\ InitProtection /\ protConfig = DEFAULT_CONFIG_Protection
  /\ InitCollateral
  /\ NoGuardian /\ NoWsServer
  /\ op = "init"

SpecWs == InitSpecWs /\ [][NextWs]_vars

\* ------------------------------------------------------------------------
\* Claims about the RiskEngine
\* ------------------------------------------------------------------------

\* C1: whenever assessPosition is given a position with healthFactor <= 1.0,
\* whatever the history, the collateral/debt mix and the protocol, it returns
\* riskScore 100 and riskLevel critical.
C1_LiquidatableScores100 ==
  (op = "assessPosition" /\ QLe(lastPosition.healthFactor, QInt(1)))
    => (lastAssessment.riskScore = 100 /\ lastAssessment.riskLevel = "critical")

\* a position at exactly 1.0 assessed with a trend sample behind it and
\* factors that would average far below 100
C1_Witness ==
  /\ op = "assessPosition"
  /\ lastPosition.healthFactor = QInt(1)
  /\ lastPosition.collateral = <<>>
  /\ Len(healthHistory[Key(lastPosition)]) = 2
  /\ CompositeScore(lastAssessment.factors) < 60
  /\ lastAssessment.riskScore = 100

\* C2: assessPosition returns riskScore >= 85 for every position with
\* healthFactor in [1.0, 1.05) and riskScore >= 70 for every position with
\* healthFactor in [1.05, 1.10), whatever the other factors score.
C2_FloorOverrides ==
  op = "assessPosition" =>
    LET hf == lastPosition.healthFactor
    IN  /\ (QGe(hf, QInt(1)) /\ QLt(hf, Q(105, 100))) => lastAssessment.riskScore >= 85
        /\ (QGe(hf, Q(105, 100)) /\ QLt(hf, Q(11, 10))) => lastAssessment.riskScore >= 70

\* a position strictly inside (1.0, 1.05) whose trend is improving and whose
\* factors average below 70: only the floor lifts it to 85
C2_Witness ==
  /\ op = "assessPosition"
  /\ QGt(lastPosition.healthFactor, QInt(1))
  /\ QLt(lastPosition.healthFactor, Q(105, 100))
  /\ lastAssessment.factors[4].detail = "Improving"
  /\ CompositeScore(lastAssessment.factors) < 70
  /\ lastAssessment.riskScore = 85

\* what assessPosition would have returned in the same state, at the same
\* time, for the same position with another health factor
AssessedWith(position, hf, history, timestamp) ==
  LET other == [position EXCEPT !.healthFactor = hf]
  IN  assessPositionResult(riskConfig, recordSnapshot(riskConfig, history, hf, timestamp), other)

\* C12: of two positions that differ only in healthFactor, assessed against
\* the same prior history of their key at the same time, the one with the
\* lower healthFactor never gets the lower riskScore.
C12_MonotoneInHealthFactor ==
  op = "assessPosition" =>
    \A hf \in HealthFactors :
      QLt(hf, lastPosition.healthFactor) =>
        AssessedWith(lastPosition, hf, priorHistory, now).riskScore >= lastAssessment.riskScore

\* an assessment with a sample behind it, for which a lower health factor
\* would have changed the trend classification and raised the score
C12_Witness ==
  /\ op = "assessPosition"
  /\ priorHistory # <<>>
  /\ \E hf \in HealthFactors :
       LET lower == AssessedWith(lastPosition, hf, priorHistory, now)
       IN  /\ QLt(hf, lastPosition.healthFactor)
           /\ lower.factors[4].detail # lastAssessment.factors[4].detail
           /\ lower.factors[1].score > lastAssessment.factors[1].score
           /\ lower.riskScore > lastAssessment.riskScore

\* ------------------------------------------------------------------------
\* Claims about the health history
\* ------------------------------------------------------------------------

\* the trend factor of the last assessment
TrendFactor == lastAssessment.factors[4]

\* the last assessment took a position at 1.18 five minutes after the oldest
\* sample of its trend window, which was at 1.50
ScenarioB ==
  /\ op = "assessPosition"
  /\ lastPosition.healthFactor = Q(118, 100)
  /\ LET recent == SliceLast(healthHistory[Key(lastPosition)], riskConfig.trendWindowSize)
     IN  recent[1] = [healthFactor |-> Q(3, 2), timestamp |-> now - 300000]

\* C15 as stated: under the default configuration, a position assessed at
\* 1.50 and, five minutes later and with no other sample, at 1.18 gets the
\* free-fall trend factor (score 95) on the second assessment, with the
\* estimate (1.18 - 1.0) / 0.064 of the minutes to liquidation.
C15_ScenarioBTwoSamples ==
  (ScenarioB /\ riskConfig = DEFAULT_CONFIG /\ Len(priorHistory) = 1) =>
    /\ TrendFactor.detail = "FREE FALL"
    /\ TrendFactor.score = 95
    /\ lastAssessment.trendEta = MathRound(QDiv(Q(18, 100), Q(64, 1000)))

\* C15 (amended): a position assessed at 1.18 five minutes after the oldest
\* sample of its trend window, taken at 1.50, gets the free-fall trend factor
\* (score 95) and the estimate (1.18 - 1.0) / 0.064 = 2.81, reported as 3 whole
\* minutes, when its history holds at least trendMinSamples samples; with
\* fewer (the two samples alone under the default trendMinSamples of 3) the
\* trend factor is "Insufficient data" with score 25 and no estimate.
C15_ScenarioBEnoughSamples ==
  ScenarioB =>
    IF Len(healthHistory[Key(lastPosition)]) >= riskConfig.trendMinSamples
    THEN /\ TrendFactor.detail = "FREE FALL"
         /\ TrendFactor.score = 95
         /\ lastAssessment.trendEta = 3
    ELSE /\ TrendFactor.detail = "Insufficient data"
         /\ TrendFactor.score = 25
         /\ lastAssessment.trendEta = -1

\* the free fall seen under the default configuration, on the third sample
C15_Witness ==
  /\ ScenarioB
  /\ riskConfig = DEFAULT_CONFIG
  /\ Len(healthHistory[Key(lastPosition)]) = 3
  /\ TrendFactor.detail = "FREE FALL"
  /\ lastAssessment.trendEta = 3

\* C16: assessWallet on an empty list throws nothing, returns the neutral
\* assessment (safe, score 0, no positions, no cross-protocol factor, no
\* recommendations) and leaves every health history as it was.
C16_EmptyWalletIsNeutral ==
  [][ (op' = "assessWallet" /\ lastWallet'.arg = <<>>) =>
        /\ lastWallet'.throws = <<>>
        /\ lastWallet'.returns =
             <<[ wallet |-> "", overallRiskLevel |-> "safe", overallRiskScore |-> 0,
                 positions |-> <<>>, crossProtocolRisk |-> <<>>, recommendations |-> <<>> ]>>
        /\ healthHistory' = healthHistory ]_vars

\* an empty list assessed by an engine that holds samples of a risky position
C16_Witness ==
  /\ op = "assessWallet"
  /\ lastWallet.arg = <<>>
  /\ lastWallet.returns # <<>>
  /\ lastAssessment.riskLevel = "high"
  /\ healthHistory[Key(lastPosition)] # <<>>

\* the positions assessed in the step: the argument of a direct
\* assessPosition call, or the list given to assessWallet
Called ==
  IF nAssess' = nAssess THEN <<>>
  ELSE IF op' = "assessPosition" THEN <<lastPosition'>>
  ELSE lastWallet'.arg

\* the key's history with the step's snapshot appended, untrimmed
Pushed(key) ==
  LET i == CHOOSE i \in DOMAIN Called : Key(Called[i]) = key
  IN  Append(healthHistory[key], [healthFactor |-> Called[i].healthFactor, timestamp |-> now'])

C19_SnapshotBeforeScoring ==
  [][ (op' = "assessPosition" /\ nAssess' # nAssess) =>
        LET key == Key(lastPosition')
            snapshot == [healthFactor |-> lastPosition'.healthFactor, timestamp |-> now']
            before == healthHistory[key]
            after == healthHistory'[key]
            trend == assessTrend(riskConfig, after, lastPosition')
        IN  /\ \A other \in Keys \ {key} : healthHistory'[other] = healthHistory[other]
            /\ after # <<>> /\ after[Len(after)] = snapshot
            /\ \E k \in 0 .. Len(before) : after = SubSeq(before, k + 1, Len(before)) \o <<snapshot>>
            /\ lastAssessment'.factors[4].score = trend.score
            /\ lastAssessment'.factors[4].detail = trend.detail ]_vars

\* an assessment whose trend is a free fall only because of the sample the
\* call itself recorded, made while another key holds samples
C19_Witness ==
  /\ op = "assessPosition"
  /\ TrendFactor.detail = "FREE FALL"
  /\ priorHistory # <<>>
  /\ assessTrend(riskConfig, priorHistory, lastPosition).detail # "FREE FALL"
  /\ \E other \in Keys \ {Key(lastPosition)} : healthHistory[other] # <<>>

\* C24: clearHistory(w) removes the histories of the keys whose wallet is w
\* and leaves every other history as it was, and clearHistory() removes
\* all histories; no other operation removes a history.
C24_ClearIsWalletScoped ==
  [][/\ op' = "clearHistory" =>
          \A key \in DOMAIN healthHistory :
            healthHistory'[key] =
              IF lastClear'[1] = <<>> \/ key[1] = lastClear'[1][1] THEN <<>>
              ELSE healthHistory[key]
     /\ op' # "clearHistory" =>
          \A key \in DOMAIN healthHistory :
            healthHistory[key] # <<>> => healthHistory'[key] # <<>>]_vars

\* C27: the recommendations follow from the risk level: safe and low give
\* one none/monitor; medium gives none/monitor, or one repay without amount
\* when the trend factor scores above 50; high gives exactly one repay/soon
\* of debt - collateral x threshold / 1.5; critical gives that repay and an
\* add-collateral of debt x 1.5 / threshold - collateral, both immediate.
\* Amounts are compared to the cent.
C27_RecommendationsByLevel ==
  op = "assessPosition" =>
    LET level == lastAssessment.riskLevel
        recs == lastAssessment.recommendations
        debt == QInt(SumValueUsd(lastPosition.debt))
        collateral == QInt(SumValueUsd(lastPosition.collateral))
        threshold == lastPosition.liquidationThreshold
        repayAmount == QSub(debt, QDiv(QMul(collateral, threshold), Q(3, 2)))
        addAmount == QSub(QDiv(QMul(debt, Q(3, 2)), threshold), collateral)
        trend == FindFactor(lastAssessment.factors, "trend")
        none == [action |-> "none", urgency |-> "monitor", amount |-> <<>>]
    IN  /\ recs # <<>>
        /\ level \in {"safe", "low"} => recs = <<none>>
        /\ level = "medium" =>
             IF trend # <<>> /\ trend[1].score > 50
             THEN Len(recs) = 1 /\ recs[1].action = "repay" /\ recs[1].amount = <<>>
             ELSE recs = <<none>>
        /\ level = "high" =>
             recs = <<[action |-> "repay", urgency |-> "soon", amount |-> <<RoundCents(repayAmount)>>]>>
        /\ level = "critical" =>
             recs = << [action |-> "repay", urgency |-> "immediate", amount |-> <<RoundCents(repayAmount)>>],
                       [action |-> "add-collateral", urgency |-> "immediate",
                        amount |-> <<RoundCents(addAmount)>>] >>

C29_RecommendationMerge ==
  (op = "assessWallet" /\ lastWallet.arg # <<>>) =>
    LET recs == lastWallet.returns[1].recommendations
        all == AllRecommendations(lastWallet.returns[1].positions)
    IN  /\ \A i, j \in DOMAIN recs : recs[i].action = recs[j].action => i = j
        /\ \A a \in DOMAIN all : \E i \in DOMAIN recs : recs[i].action = all[a].action
        /\ \A i \in DOMAIN recs :
             /\ \E a \in DOMAIN all : all[a] = recs[i]
             /\ \A a \in DOMAIN all :
                  all[a].action = recs[i].action =>
                    urgencyRank[recs[i].urgency] <= urgencyRank[all[a].urgency]
        /\ \A i, j \in DOMAIN recs :
             i < j => urgencyRank[recs[i].urgency] <= urgencyRank[recs[j].urgency]

\* a later position's recommendation replaced an earlier, less urgent one
\* with the same action, and the merged list has several entries
C29_Witness ==
  /\ op = "assessWallet" /\ lastWallet.arg # <<>>
  /\ LET recs == lastWallet.returns[1].recommendations
         all == AllRecommendations(lastWallet.returns[1].positions)
     IN  /\ Len(recs) >= 2
         /\ Len(all) > Len(recs)
         /\ \E a, b \in DOMAIN all :
              /\ a < b /\ all[a].action = all[b].action
              /\ urgencyRank[all[b].urgency] < urgencyRank[all[a].urgency]
              /\ \E i \in DOMAIN recs : recs[i] = all[b]

\* C30: after any sequence of connection, 'error' and 'close' events,
\* stats.connected is the number of clients tracked, is never negative,
\* and peakConnections is at least connected.
C30_ConnectionAccounting ==
  /\ stats.connected = Cardinality(clients)
  /\ stats.connected >= 0
  /\ stats.peakConnections >= stats.connected

\* the protocols on which the positions carry debt
DebtProtocols(positions) ==
  {positions[i].protocol : i \in {j \in DOMAIN positions : SumValueUsd(positions[j].debt) > 0}}

\* C25: assessWallet's overallRiskScore is round(0.7 x highest position
\* riskScore + 0.3 x mean position riskScore), whether or not there is a
\* cross_protocol factor; that factor is present exactly when the wallet's
\* debt spans at least two protocols, with score min(60, 20 x protocols).
C25_WalletAggregation ==
  (op = "assessWallet" /\ lastWallet.arg # <<>>) =>
    LET result == lastWallet.returns[1]
        debtProtocols == DebtProtocols(lastWallet.arg)
    IN  /\ result.overallRiskScore =
             MathRound(QAdd(QMul(QInt(MaxRiskScore(result.positions)), Q(7, 10)),
                            QMul(Q(SumRiskScore(result.positions), Len(result.positions)), Q(3, 10))))
        /\ result.crossProtocolRisk # <<>> <=> Cardinality(debtProtocols) >= 2
        /\ result.crossProtocolRisk # <<>> =>
             /\ result.crossProtocolRisk[1].name = "cross_protocol"
             /\ result.crossProtocolRisk[1].score = Min(60, 20 * Cardinality(debtProtocols))

levelRank == [safe |-> 0, low |-> 1, medium |-> 2, high |-> 3, critical |-> 4]

\* C26: the overallRiskLevel assessWallet returns for a non-empty list is
\* at least as severe as the riskLevel of every position assessment in it.
C26_WalletAtLeastAsSevere ==
  (op = "assessWallet" /\ lastWallet.arg # <<>>) =>
    LET result == lastWallet.returns[1]
    IN  \A i \in DOMAIN result.positions :
          levelRank[result.overallRiskLevel] >= levelRank[result.positions[i].riskLevel]

\* ------------------------------------------------------------------------
\* Claims about the guardian's check loop
\* ------------------------------------------------------------------------

\* the positions of cycle c that runCheck's loop has gone through
Passed(c) ==
  IF cycles[c].pc = "awaitFetch" THEN {}
  ELSE {idx \in DOMAIN cycles[c].positions : idx <= cycles[c].i}

\* the protect calls runCheck made for the idx-th position of cycle c
CallsFor(c, idx) ==
  {k \in DOMAIN callers : callers[k] = [by |-> "runCheck", cycle |-> c, index |-> idx]}

\* the 'protection' events of the idx-th position of cycle c
ProtectionEvents(c, idx) ==
  {e \in DOMAIN events : /\ events[e].type = "protection"
                         /\ events[e].cycle = c
                         /\ events[e].index = idx}

\* the idx-th position of cycle c was assessed high or critical
AtRisk(c, idx) == cycles[c].levels[idx] \in {"critical", "high"}

\* C17: in monitor-only mode no cycle calls protect: the execution log stays
\* empty, nothing is requested of the connection, and every high or
\* critical position a cycle has gone through has one 'protection' event,
\* with result null and no approve callback; in approve mode every protect
\* call was made by an invocation of the approve callback of an emitted
\* 'protection' event, none by a cycle; in full-auto mode a cycle has made
\* one protect call for every high or critical position it has gone
\* through, and none for any other position.
C17_AutonomyModes ==
  /\ Len(callers) = Len(calls)
  /\ autonomy = "monitor-only" =>
       /\ calls = <<>> /\ executionLog = <<>> /\ rpc = <<>>
       /\ \A c \in DOMAIN cycles : \A idx \in Passed(c) :
            Cardinality(ProtectionEvents(c, idx)) = IF AtRisk(c, idx) THEN 1 ELSE 0
       /\ \A e \in DOMAIN events :
            events[e].type = "protection" => events[e].result = <<>> /\ ~events[e].approve
  /\ autonomy = "approve" =>
       /\ \A k \in DOMAIN callers :
            /\ callers[k].by = "approve"
            /\ callers[k].event \in DOMAIN events
            /\ events[callers[k].event].type = "protection"
            /\ events[callers[k].event].approve
       /\ \A c \in DOMAIN cycles : \A idx \in Passed(c) :
            Cardinality(ProtectionEvents(c, idx)) = IF AtRisk(c, idx) THEN 1 ELSE 0
  /\ autonomy = "full-auto" =>
       /\ \A k \in DOMAIN callers : callers[k].by = "runCheck"
       /\ \A c \in DOMAIN cycles : \A idx \in DOMAIN cycles[c].positions :
            Cardinality(CallsFor(c, idx)) = IF idx \in Passed(c) /\ AtRisk(c, idx) THEN 1 ELSE 0

\* two full-auto cycles have finished, each having sent one transaction for
\* its critical position and none for its healthy one
C17_Witness ==
  /\ autonomy = "full-auto" /\ keypair
  /\ Len(cycles) = 2
  /\ \A c \in DOMAIN cycles : cycles[c].pc = "done" /\ Cardinality(Passed(c)) = 2
  /\ Len(calls) = 2
  /\ \A k \in DOMAIN calls : calls[k].stage = "returned"
  /\ Len(executionLog) = 2
  /\ Cardinality({e \in DOMAIN events : events[e].type = "protection"}) = 2

\* C20: a cycle started by a timer tick does not begin assessing the
\* wallet while an earlier cycle is still in flight, awaiting its position
\* fetch or a protection execution.
C20_CyclesNeverOverlap ==
  [][\A c \in DOMAIN cycles :
       (cycles[c].pc = "awaitFetch" /\ cycles'[c].pc # "awaitFetch")
         => \A earlier \in 1..(c - 1) : cycles[earlier].pc = "done"]_vars

\* C21: once stop() has been called no check cycle is started until
\* start() is called again, whenever stop() was called, and the guardian is
\* not running only when no interval timer is scheduled; a cycle in flight
\* is left to run.
C21_StopEndsTheCycles ==
  [][/\ (op' = "tick" => running)
     /\ (~running' => timers' = {})
     /\ (op' = "stop" => cycles' = cycles)]_vars

\* C22: once protect has realized or dry-run an option for a position, the
\* health factor it results in is the newest sample of the history of the
\* position's key.
C22_ResultFedBack ==
  [][(/\ op' = "executeProtection"
      /\ returned' # returned
      /\ returned'[Len(returned')].success)
       => LET result == returned'[Len(returned')]
              history == healthHistory'[Key(lastPosition')]
          IN  /\ history # <<>>
              /\ history[Len(history)].healthFactor = result.newHF[1]]_vars

\* what an option projects: its amount, the health factor, debt and
\* collateral it results in, and its costs
OptionProjection(o) ==
  [ action |-> o.action, amountUsd |-> o.amountUsd, resultingHF |-> o.resultingHF,
    resultingDebtUsd |-> o.resultingDebtUsd, resultingCollateralUsd |-> o.resultingCollateralUsd,
    capitalCostUsd |-> o.capitalCostUsd, yieldCostAnnualUsd |-> o.yieldCostAnnualUsd,
    totalScoreUsd |-> o.totalScoreUsd ]

\* what a recommendation projects
SwapProjection(r) ==
  [ fromAsset |-> r.fromAsset, toAsset |-> r.toAsset,
    projectedHF |-> r.healthImpact.projectedHF, safe |-> r.healthImpact.safe ]

\* C23: a call of evaluateOptions on a position that differs from that of
\* the call before only in the healthFactor field returns options with the
\* same amounts, resulting health factor, debt and collateral and costs, and
\* such a call of analyzePosition returns recommendations with the same
\* projected health factors and safe flags.
C23_ProjectionsIgnoreReportedHF ==
  [][/\ (op' = "evaluateOptions" /\ lastEval.riskLevel # "none")
        => [i \in DOMAIN lastEval'.options |-> OptionProjection(lastEval'.options[i])]
             = [i \in DOMAIN lastEval.options |-> OptionProjection(lastEval.options[i])]
     /\ (op' = "analyzePosition" /\ "wallet" \in DOMAIN lastAnalysis)
        => [i \in DOMAIN lastAnalysis'.recommendations |->
              SwapProjection(lastAnalysis'.recommendations[i])]
             = [i \in DOMAIN lastAnalysis.recommendations |->
                  SwapProjection(lastAnalysis.recommendations[i])]]_vars

\* both operations have been called on reports of 0.9 and of 3, and gave
\* options and recommendations
C23_Witness ==
  /\ lastEval.riskLevel # "none" /\ lastEval.position.healthFactor = Q(3, 1)
  /\ Len(lastEval.options) >= 2
  /\ "wallet" \in DOMAIN lastAnalysis
  /\ lastAnalysis.recommendations # <<>>
  /\ lastAnalysis.recommendations[1].healthImpact.currentHF = Q(9, 10)
  /\ lastAnalysis.recommendations[1].healthImpact.safe

\* ------------------------------------------------------------------------
\* Claims about evaluateOptions and selectBestOption
\* ------------------------------------------------------------------------

Evaluated == op \in {"evaluateOptions", "selectBestOption"}
Indices(seq) == 1 .. Len(seq)

\* C3: evaluateOptions returns the empty list whenever the assessment's risk
\* level is safe or low, for every position and configuration.
C3_NoOptionsWhenSafeOrLow ==
  (Evaluated /\ lastEval.riskLevel \in {"safe", "low"}) => lastEval.options = <<>>

\* a low-risk call on a position that gets three options at a higher level
C3_Witness ==
  /\ op = "evaluateOptions"
  /\ lastEval.riskLevel = "low"
  /\ Len(RepayOption(lastEval.config, lastEval.position)
           \o AddCollateralOption(lastEval.config, lastEval.position)
           \o UnwindOption(lastEval.config, lastEval.position)) = 3
  /\ lastEval.options = <<>>

\* C7: every option evaluateOptions returns, of any kind, has an amount
\* strictly above 0 and at most config.maxProtectionUsd.
C7_AmountsWithinBudget ==
  Evaluated =>
    \A i \in Indices(lastEval.options) :
      /\ QGt(lastEval.options[i].amount, QZero)
      /\ QLe(lastEval.options[i].amount, lastEval.config.maxProtectionUsd)

\* the remaining debt and the recomputed quotient of a repay option;
\* a quotient by zero equals no number
RecomputedHFIs(position, option, value) ==
  LET collateral == QInt(SumValueUsd(position.collateral))
      remaining == QSub(QInt(SumValueUsd(position.debt)), option.amount)
  IN  /\ remaining # QZero
      /\ QDiv(QMul(collateral, position.liquidationThreshold), remaining) = value

\* C9 as stated: for every repay option returned, collateral*threshold /
\* (debt - amount) is its resultingHF and debt - amount its resultingDebtUsd,
\* degenerate positions included.
C9_RepayRecomputeAlways ==
  Evaluated =>
    \A i \in Indices(lastEval.options) :
      LET o == lastEval.options[i]
      IN  o.action = "repay" =>
            /\ RecomputedHFIs(lastEval.position, o, o.resultingHF)
            /\ o.resultingDebtUsd = QSub(QInt(SumValueUsd(lastEval.position.debt)), o.amount)

\* C9 (amended): for every repay option returned, resultingDebtUsd is debt -
\* amount; when that remaining debt is positive, collateral*threshold /
\* (debt - amount) is the option's resultingHF; when it is zero (nothing
\* counts as collateral, the whole debt is repaid) resultingHF is 999.
C9_RepayRecompute ==
  Evaluated =>
    \A i \in Indices(lastEval.options) :
      LET o == lastEval.options[i]
      IN  o.action = "repay" =>
            /\ o.resultingDebtUsd = QSub(QInt(SumValueUsd(lastEval.position.debt)), o.amount)
            /\ QGt(o.resultingDebtUsd, QZero)
                 => RecomputedHFIs(lastEval.position, o, o.resultingHF)
            /\ o.resultingDebtUsd = QZero => o.resultingHF = QInt(999)

\* a repay option that leaves debt, on a position whose healthFactor field
\* differs from the recomputed value
C9_Witness ==
  /\ op = "evaluateOptions"
  /\ \E i \in Indices(lastEval.options) :
       /\ lastEval.options[i].action = "repay"
       /\ QGt(lastEval.options[i].resultingDebtUsd, QZero)
       /\ lastEval.options[i].resultingHF # lastEval.position.healthFactor
       /\ lastEval.options[i].resultingHF # QInt(999)

\* the first viable element of a list, <<>> when there is none
RECURSIVE FirstViable(_)
FirstViable(options) ==
  IF options = <<>> THEN <<>>
  ELSE IF options[1].viable THEN <<options[1]>>
  ELSE FirstViable(Tail(options))

\* C10: in evaluateOptions' result, under yield-optimized an option with a
\* strictly smaller yieldCostAnnualUsd precedes one with a larger; under
\* cost-optimized capitalCostUsd is ascending; under speed-optimized the first
\* option has the maximum resultingHF; selectBestOption returns the first
\* viable element of its list, null for the empty list.
C10_RankingLaws ==
  /\ Evaluated =>
       LET os == lastEval.options
           st == lastEval.config.preferredStrategy
       IN  /\ st = "yield-optimized" =>
                \A i, j \in Indices(os) :
                  QLt(os[i].yieldCostAnnualUsd, os[j].yieldCostAnnualUsd) => i < j
           /\ st = "cost-optimized" =>
                \A i, j \in Indices(os) : i < j => QLe(os[i].capitalCostUsd, os[j].capitalCostUsd)
           /\ st = "speed-optimized" =>
                \A j \in Indices(os) : QGe(os[1].resultingHF, os[j].resultingHF)
  /\ op = "selectBestOption" =>
       /\ lastSelect.selected = FirstViable(lastSelect.options)
       /\ lastSelect.options = <<>> => lastSelect.selected = <<>>

\* three options ranked by yield cost into an order that is not the order
\* they were generated in, and the first of them selected
C10_Witness ==
  /\ op = "selectBestOption"
  /\ lastEval.config.preferredStrategy = "yield-optimized"
  /\ lastSelect.options = lastEval.options
  /\ Len(lastEval.options) = 3
  /\ lastEval.options[1].action = "add-collateral"
  /\ lastSelect.selected = <<lastEval.options[1]>>

\* C11 as stated: under the default configuration the option selected from
\* evaluateOptions' list has the lowest totalScoreUsd (capitalCostUsd +
\* yieldCostAnnualUsd) of all options generated for the position.
C11_DefaultSelectsLowestTotalCost ==
  ( /\ op = "selectBestOption"
    /\ lastEval.config = DEFAULT_CONFIG_Protection
    /\ lastSelect.options = lastEval.options
    /\ lastSelect.selected # <<>> ) =>
    \A i \in Indices(lastEval.options) :
      QLe(lastSelect.selected[1].totalScoreUsd, lastEval.options[i].totalScoreUsd)

\* ------------------------------------------------------------------------
\* Claims about protect
\* ------------------------------------------------------------------------

\* the calls in which building or submitting the transaction raised an error
Raised(cs) == {i \in DOMAIN cs : cs[i].raised # <<>>}

\* C5: in every step in which building or submitting the transaction raises
\* an error inside protect (dryRun false, signer supplied), the call lets no
\* error propagate, returns a result with success false, the error message
\* and dryRun false, and that result is appended to the execution log.
C5_ErrorsBecomeFailedResults ==
  [][ \A i \in Raised(calls') \ Raised(calls) :
        /\ ~calls'[i].config.dryRun /\ calls'[i].signer
        /\ calls'[i].throws = <<>>
        /\ Len(calls'[i].returns) = 1
        /\ ~calls'[i].returns[1].success
        /\ calls'[i].returns[1].error = calls'[i].raised
        /\ ~calls'[i].returns[1].dryRun
        /\ executionLog' = Append(executionLog, calls'[i].returns[1]) ]_vars

\* a submission that failed after an earlier call was logged: the failed
\* result is the newest entry of the log
C5_Witness ==
  /\ Len(executionLog) = 2
  /\ \E i \in DOMAIN calls :
       /\ calls[i].raised = <<SendError>>
       /\ calls[i].returns = <<executionLog[2]>>
       /\ executionLog[2].error = <<SendError>>

\* C6: protect makes requests to the external executor only in calls made
\* with config.dryRun false and a signer supplied; every other call that has
\* at least one option makes no request and returns a result with dryRun
\* true, success true and newHF equal to the selected option's resultingHF.
C6_DryRunHasNoExternalEffect ==
  /\ \A k \in DOMAIN rpc : ~calls[rpc[k].call].config.dryRun /\ calls[rpc[k].call].signer
  /\ \A i \in DOMAIN calls :
       LET c == calls[i]
           options == evaluateOptions(c.config, c.position, c.riskLevel)
       IN  ((c.config.dryRun \/ ~c.signer) /\ options # <<>>) =>
             /\ \A k \in DOMAIN rpc : rpc[k].call # i
             /\ c.stage = "returned"
             /\ Len(c.returns) = 1
             /\ c.returns[1].dryRun
             /\ c.returns[1].success
             /\ c.returns[1].option = options[1]
             /\ c.returns[1].newHF = <<options[1].resultingHF>>

\* one call sent a transaction; another, made with dryRun false but without
\* a signer or with a signer under dryRun true, returned a simulated result
C6_Witness ==
  /\ \E k \in DOMAIN rpc : rpc[k].method = "sendAndConfirmTransaction"
  /\ \E i \in DOMAIN calls :
       /\ (calls[i].config.dryRun /\ calls[i].signer) \/ (~calls[i].config.dryRun /\ ~calls[i].signer)
       /\ calls[i].returns # <<>>
       /\ calls[i].returns[1].dryRun
       /\ calls[i].returns[1].newHF # <<>>

\* C8 as stated: the execution log holds exactly one entry per protect call
\* that has returned, in order, no-option attempts included.
C8_OneLogEntryPerCall == executionLog = returned

ScenarioA(position) ==
  /\ position # NoPosition
  /\ Len(position.collateral) = 1
  /\ SumValueUsd(position.collateral) = 13800
  /\ SumValueUsd(position.debt) = 10000
  /\ position.liquidationThreshold = Q(85, 100)
  /\ position.healthFactor = Q(1173, 1000)

\* C14 as stated: scenario A, assessed under the default configuration with
\* no prior history, gets riskLevel high or critical, and evaluateOptions
\* under the default configuration produces a repay option of amount 2180.
C14_ScenarioA ==
  ( /\ op = "evaluateProtection"
    /\ ScenarioA(lastPosition)
    /\ riskConfig = DEFAULT_CONFIG
    /\ priorHistory = <<>>
    /\ protConfig = DEFAULT_CONFIG_Protection ) =>
    /\ lastAssessment.riskLevel \in {"high", "critical"}
    /\ \E i \in Indices(lastEval.options) :
         lastEval.options[i].action = "repay" /\ lastEval.options[i].amount = QInt(2180)

\* ------------------------------------------------------------------------
\* Claims about the CollateralAnalyzer
\* ------------------------------------------------------------------------

\* C4: every recommendation analyzePosition returns has healthImpact.safe
\* true and healthImpact.projectedHF >= 1.25.
C4_RecommendationsAreSafe ==
  op = "analyzePosition" =>
    \A i \in Indices(lastAnalysis.recommendations) :
      /\ lastAnalysis.recommendations[i].healthImpact.safe
      /\ QGe(lastAnalysis.recommendations[i].healthImpact.projectedHF, Q(125, 100))

\* an analysis that kept some swaps and discarded a higher-yield swap whose
\* projected health factor is below the floor
C4_Witness ==
  /\ op = "analyzePosition"
  /\ lastAnalysis.recommendations # <<>>
  /\ \E i \in DOMAIN analyzeArgs.collateral :
       LET cs == Candidates(ASSET_REGISTRY, analyzeArgs.collateral[i], analyzeArgs)
       IN  \E k \in DOMAIN cs :
             /\ QLt(cs[k].healthImpact.projectedHF, Q(125, 100))
             /\ \A j \in Indices(lastAnalysis.recommendations) :
                  QGt(cs[k].annualGainUsd, lastAnalysis.recommendations[j].annualGainUsd)

====
